---- MODULE Spec2Model ----
(***************************************************************************)
(* Model of the pytcgplayer time series alignment engine                   *)
(* (common/time_series_aligner.py), the aggregator built on it             *)
(* (chart/index_aggregator.py) and the coverage analyzer                   *)
(* (common/coverage_analyzer.py).                                          *)
(*                                                                         *)
(* A DataFrame is a sequence of rows (row order is the positional order of *)
(* the frame).  A calendar date is the integer day number; None is 0.      *)
(* A price is an integer number of cents.  A percentage or fraction that   *)
(* the code computes in floating point is kept as an exact fraction        *)
(* [num, den].                                                             *)
(***************************************************************************)
EXTENDS Integers, Sequences, FiniteSets, TLC

\* ------------------------------------------------------------------------
\* Bounds of the explored input space
\* ------------------------------------------------------------------------
NumSigs == 3      \* signatures that may occur in the dataset
NumDates == 3     \* distinct period_end_date values that may occur
MaxRows == 5      \* rows of the source dataset

VARIABLES
    df,              \* the source dataset (rows read from the input CSV)
    allow_fallback,  \* the allow_fallback argument of the calls
    pc,              \* the last operation that ran ("ready" before any)
    step1,           \* result of _1_find_first_complete_coverage_date
    subset_df,       \* result of align_complete / create_subset
    ts_df,           \* result of aggregate_time_series
    filter_config,   \* the sets, types and period arguments in use
    dataset_cache,   \* CoverageAnalyzer._dataset_cache
    analyzed,        \* the allow_fallback values analyze_filter_combination ran with
    coverage_result, \* its CoverageResult for each allow_fallback value
    expanded_sets,   \* result of FilterValidator.expand_set_pattern
    expanded_types,  \* result of FilterValidator.expand_type_pattern
    raised,          \* the exception the last operation raised ("" when it returned)
    request,         \* arguments of the last discover / suggest call
    recommendations, \* the list that call returned
    evaluated,       \* the analyses that call made, in order
    previous,        \* request and result of the discover call before the last
    signature_cache, \* CoverageAnalyzer._signature_cache
    summary,         \* result of the last get_dataset_summary
    configurations,  \* content of the configuration file: name -> entry
    clock,           \* datetime.now() of the next ConfigurationManager call
    config_call,     \* the last ConfigurationManager call: arguments and return value
    uses,            \* per name, successful usage updates since it was created
    max_retries,     \* WebClient.max_retries
    attempt,         \* loop variable of WebClient.fetch
    responses,       \* outcome of every GET request of the fetch call so far
    fetch_result     \* how the fetch call ended

vars == <<df, allow_fallback, pc, step1, subset_df, ts_df, filter_config,
          dataset_cache, analyzed, coverage_result, expanded_sets, expanded_types,
          raised, request, recommendations, evaluated, previous, signature_cache,
          summary, configurations, clock, config_call, uses, max_retries, attempt,
          responses, fetch_result>>

alignVars == <<step1, subset_df, ts_df>>
coverageVars == <<dataset_cache, analyzed, coverage_result>>
filterVars == <<expanded_sets, expanded_types, raised>>
discoverVars == <<request, recommendations, evaluated, previous>>
summaryVars == <<signature_cache, summary>>
configVars == <<configurations, clock, config_call, uses>>
fetchVars == <<max_retries, attempt, responses, fetch_result>>
extVars == <<discoverVars, summaryVars, configVars, fetchVars>>

\* ------------------------------------------------------------------------
\* Values
\* ------------------------------------------------------------------------
None == 0
NowStamp == "now"                        \* pd.Timestamp.now() of a gap fill
CollectedAt == "2025-07-24 15:00:00"     \* timestamp of an observed record

Pct(n, d) == [num |-> n, den |-> d]
PctLess(a, b) == a.num * b.den < b.num * a.den
PctLeq(a, b) == a.num * b.den <= b.num * a.den
PctEq(a, b) == a.num * b.den = b.num * a.den

\* The signatures of the explored datasets: (set, type, period, name).
\* Signatures 1 and 3 share set and name and differ in type only.
SigTable ==
    << <<"SV01", "Card", "3M", "Test Card 1">>,
       <<"SV02", "Booster Box", "3M", "Test Box 1">>,
       <<"SV01", "Elite Trainer Box", "3M", "Test Card 1">>,
       <<"SWSH06", "Elite Trainer Box", "3M", "Test ETB 1">>,
       <<"SV02", "Card", "3M", "Test Box 1">> >>

\* price (in cents) and volume of each signature on the first date
BasePrice == <<10050, 20000, 15075, 30000, 25025>>
BaseVolume == <<5, 10, 3, 15, 7>>

SigIds == 1..NumSigs
DateIds == 1..NumDates
DateOf(k) == 1 + 2 * k                   \* day numbers 3, 5, 7, ...
Cells == SigIds \X DateIds

\* The observed record of signature i on the k-th date.
Observed(i, k) ==
    [set |-> SigTable[i][1], type |-> SigTable[i][2],
     period |-> SigTable[i][3], name |-> SigTable[i][4],
     period_start_date |-> DateOf(k) - (1 + ((i + k) % 2)),
     period_end_date |-> DateOf(k),
     timestamp |-> CollectedAt,
     holofoil_price |-> BasePrice[i] + 500 * (k - 1),
     volume |-> BaseVolume[i] + (k - 1)]

\* Python's ordering of the strings used as sort keys.
StrRank(s) ==
    CASE s = "Test Box 1" -> 1 [] s = "Test Card 1" -> 2 [] s = "Test ETB 1" -> 3
      [] s = "SV01" -> 4 [] s = "SV02" -> 5 [] s = "SWSH06" -> 6
      [] s = "Booster Box" -> 7 [] s = "Card" -> 8
      [] s = "Elite Trainer Box" -> 9
      [] OTHER -> 0

\* ------------------------------------------------------------------------
\* Sequence helpers
\* ------------------------------------------------------------------------
Range(s) == {s[i] : i \in DOMAIN s}
SetMin(S) == CHOOSE x \in S : \A y \in S : x <= y

RECURSIVE SortedInts(_)
\* sorted(S) for a set of integers
SortedInts(S) ==
    IF S = {} THEN << >>
    ELSE LET m == SetMin(S) IN <<m>> \o SortedInts(S \ {m})

Reverse(s) == [i \in 1..Len(s) |-> s[Len(s) + 1 - i]]

Tail2(s) == IF Len(s) = 0 THEN << >> ELSE Tail(s)   \* s[1:]

\* ------------------------------------------------------------------------
\* TimeSeriesAligner
\* ------------------------------------------------------------------------
Sig(row) == <<row.set, row.type, row.period, row.name>>

\* df.groupby(['set','type','period','name']).size().index.tolist()
signatures(rows) == {Sig(rows[i]) : i \in DOMAIN rows}

\* sorted(df['period_end_date'].unique())
all_dates(rows) == SortedInts({rows[i].period_end_date : i \in DOMAIN rows})

\* len(date_coverage[date]): one entry per row of the date
signatures_on_date(rows, date) ==
    Cardinality({i \in DOMAIN rows : rows[i].period_end_date = date})

RECURSIVE first_complete_loop(_, _, _)
\* the "Look for 100% coverage first" loop over sorted_dates
first_complete_loop(rows, sorted_dates, total_signatures) ==
    IF sorted_dates = << >> THEN None
    ELSE IF signatures_on_date(rows, Head(sorted_dates)) = total_signatures
         THEN Head(sorted_dates)
         ELSE first_complete_loop(rows, Tail(sorted_dates), total_signatures)

\* mutant: a later date with the same coverage replaces the best date
better_coverage_or_equal(signatures_on, best_coverage) ==
    signatures_on >= best_coverage

\* the comparison that replaces best_date in the fallback loop
better_coverage(signatures_on, best_coverage) == signatures_on > best_coverage

RECURSIVE fallback_loop(_, _, _, _)
\* the "Find date with maximum coverage percentage" loop;
\* best is [best_date, best_coverage]
fallback_loop(rows, sorted_dates, total_signatures, best) ==
    IF sorted_dates = << >> THEN best
    ELSE LET date == Head(sorted_dates)
             n == signatures_on_date(rows, date)
             next == IF better_coverage(n, best.best_coverage)
                     THEN [best_date |-> date, best_coverage |-> n]
                     ELSE best
         IN fallback_loop(rows, Tail(sorted_dates), total_signatures, next)

\* mutant: the fallback branch is entered whatever the flag
use_fallback_always(fallback) == TRUE

\* mutant: the flag is read inverted
use_fallback_inverted(fallback) == ~fallback

\* whether Step 1 enters the fallback branch
use_fallback(fallback) == fallback

_1_find_first_complete_coverage_date(rows, fallback) ==
    IF rows = << >> THEN [date |-> None, coverage_pct |-> Pct(0, 1)]
    ELSE
      LET total_signatures == Cardinality(signatures(rows))
          sorted_dates == all_dates(rows)
          complete == first_complete_loop(rows, sorted_dates, total_signatures)
          best == fallback_loop(rows, sorted_dates, total_signatures,
                                [best_date |-> None, best_coverage |-> 0])
      IN IF complete # None
         THEN [date |-> complete, coverage_pct |-> Pct(100, 1)]
         ELSE IF use_fallback(fallback) /\ best.best_date # None
         THEN [date |-> best.best_date,
               coverage_pct |-> Pct(best.best_coverage * 100, total_signatures)]
         ELSE [date |-> None, coverage_pct |-> Pct(0, 1)]

\* df[df['period_end_date'] == date]
rows_on(rows, date) == SelectSeq(rows, LAMBDA r : r.period_end_date = date)

\* mutant: the records before the date are kept
rows_from_all(rows, date) == rows

\* df[df['period_end_date'] >= date]
rows_from(rows, date) == SelectSeq(rows, LAMBDA r : r.period_end_date >= date)

\* current_coverage[date]: the signatures with a row on the date
current_coverage(rows, first_complete_date, date) ==
    {Sig(rows[i]) : i \in {j \in DOMAIN rows :
                             /\ rows[j].period_end_date = date
                             /\ rows[j].period_end_date >= first_complete_date}}

\* mutant: no signature is ever reported missing
missing_signatures_none(sigs, covered) == {}

\* set(signatures) - current_coverage[date]
missing_signatures(sigs, covered) == sigs \ covered

\* mutant: a signature's first record is never replaced by a later one
set_latest_keep_first(latest, row) ==
    [k \in DOMAIN latest \cup {Sig(row)} |->
        IF k \in DOMAIN latest THEN latest[k] ELSE row]

\* signature_latest_record[sig] = row.to_dict()
set_latest(latest, row) ==
    [k \in DOMAIN latest \cup {Sig(row)} |->
        IF k = Sig(row) THEN row ELSE latest[k]]

RECURSIVE update_latest(_, _)
\* for _, row in records.iterrows(): signature_latest_record[sig] = row
update_latest(latest, rows) ==
    IF rows = << >> THEN latest
    ELSE update_latest(set_latest(latest, Head(rows)), Tail(rows))

\* the record synthesized from base_record for the date
gap_fill_record(base_record, date) ==
    LET r1 == [base_record EXCEPT !.period_end_date = date]
        days_diff == r1.period_end_date - r1.period_start_date
        r2 == [r1 EXCEPT !.period_start_date = date - days_diff]
    IN [r2 EXCEPT !.timestamp = NowStamp]

SigIndex(sig) == CHOOSE i \in 1..Len(SigTable) : SigTable[i] = sig

RECURSIVE iteration_order(_, _)
\* the order in which "for missing_sig in missing_signatures" visits a set:
\* a Python set of tuples has no defined order; the model visits it in
\* table order or in reverse table order
iteration_order(missing, reversed) ==
    IF missing = {} THEN << >>
    ELSE LET pick == CHOOSE s \in missing : \A t \in missing :
                         IF reversed THEN SigIndex(s) >= SigIndex(t)
                                     ELSE SigIndex(s) <= SigIndex(t)
         IN <<pick>> \o iteration_order(missing \ {pick}, reversed)

RECURSIVE fill_missing(_, _, _)
\* the inner loop: one gap-fill record per missing signature with a
\* latest record
fill_missing(missing_seq, latest, date) ==
    IF missing_seq = << >> THEN << >>
    ELSE (IF Head(missing_seq) \in DOMAIN latest
          THEN <<gap_fill_record(latest[Head(missing_seq)], date)>>
          ELSE << >>)
         \o fill_missing(Tail(missing_seq), latest, date)

RECURSIVE fill_loop(_, _, _, _, _, _, _)
\* "for date in target_dates[1:]": returns gap_fill_records
fill_loop(rows, sigs, dates, first_complete_date, latest, gaps, flips) ==
    IF dates = << >> THEN gaps
    ELSE LET date == Head(dates)
             missing == missing_signatures(sigs,
                            current_coverage(rows, first_complete_date, date))
             new == fill_missing(iteration_order(missing, date \in flips),
                                 latest, date)
         IN fill_loop(rows, sigs, Tail(dates), first_complete_date,
                      update_latest(latest, rows_on(rows, date)),
                      gaps \o new, flips)

\* key order of sort_values(['period_end_date', 'set', 'name'])
KeyLeq(a, b) ==
    \/ a.period_end_date < b.period_end_date
    \/ /\ a.period_end_date = b.period_end_date
       /\ \/ StrRank(a.set) < StrRank(b.set)
          \/ /\ StrRank(a.set) = StrRank(b.set)
             /\ StrRank(a.name) <= StrRank(b.name)

\* insert after every row whose key is not greater (the sort is stable)
InsertRow(sorted, row) ==
    LET n == Cardinality({i \in DOMAIN sorted : KeyLeq(sorted[i], row)})
    IN SubSeq(sorted, 1, n) \o <<row>> \o SubSeq(sorted, n + 1, Len(sorted))

RECURSIVE sort_values(_)
\* filled_df.sort_values(['period_end_date','set','name']).reset_index()
sort_values(rows) ==
    IF rows = << >> THEN << >>
    ELSE InsertRow(sort_values(SubSeq(rows, 1, Len(rows) - 1)), rows[Len(rows)])

\* flips: the dates on which the set of missing signatures is visited in
\* reverse table order
_2_fill_signature_gaps_after_first_complete_date(rows, first_complete_date, flips) ==
    IF rows = << >> \/ first_complete_date = None THEN rows
    ELSE
      LET sigs == signatures(rows)
          target_dates == SelectSeq(all_dates(rows),
                                    LAMBDA d : d >= first_complete_date)
          latest0 == update_latest(<< >>, rows_on(rows, first_complete_date))
          gap_fill_records == fill_loop(rows, sigs, Tail2(target_dates),
                                        first_complete_date, latest0, << >>, flips)
          filtered_original == rows_from(rows, first_complete_date)
      IN IF gap_fill_records # << >>
         THEN sort_values(filtered_original \o gap_fill_records)
         ELSE filtered_original

align_complete(rows, fallback, flips) ==
    IF rows = << >> THEN << >>
    ELSE LET s1 == _1_find_first_complete_coverage_date(rows, fallback)
         IN IF s1.date = None THEN << >>
            ELSE _2_fill_signature_gaps_after_first_complete_date(
                     rows_from(rows, s1.date), s1.date, flips)

\* ------------------------------------------------------------------------
\* FilterValidator
\* ------------------------------------------------------------------------
\* A pattern is a sequence of one-character strings.  A vocabulary value is
\* a string; VocabChars gives its characters.
VALID_SETS ==
    {"SV01", "SV02", "SV03", "SV03.5", "SV04", "SV04.5", "SV05",
     "SV06", "SV06.5", "SV07", "SV08", "SV08.5", "SV09", "SV10",
     "SWSH06", "SWSH07", "SWSH07.5", "SWSH08", "SWSH09", "SWSH10",
     "SWSH11", "SWSH12", "SWSH12.5"}
VALID_TYPES == {"Card", "Booster Box", "Elite Trainer Box"}
VALID_PERIODS == {"3M"}

VocabChars(s) ==
    CASE s = "SV01" -> <<"S", "V", "0", "1">>
      [] s = "SV02" -> <<"S", "V", "0", "2">>
      [] s = "SV03" -> <<"S", "V", "0", "3">>
      [] s = "SV03.5" -> <<"S", "V", "0", "3", ".", "5">>
      [] s = "SV04" -> <<"S", "V", "0", "4">>
      [] s = "SV04.5" -> <<"S", "V", "0", "4", ".", "5">>
      [] s = "SV05" -> <<"S", "V", "0", "5">>
      [] s = "SV06" -> <<"S", "V", "0", "6">>
      [] s = "SV06.5" -> <<"S", "V", "0", "6", ".", "5">>
      [] s = "SV07" -> <<"S", "V", "0", "7">>
      [] s = "SV08" -> <<"S", "V", "0", "8">>
      [] s = "SV08.5" -> <<"S", "V", "0", "8", ".", "5">>
      [] s = "SV09" -> <<"S", "V", "0", "9">>
      [] s = "SV10" -> <<"S", "V", "1", "0">>
      [] s = "SWSH06" -> <<"S", "W", "S", "H", "0", "6">>
      [] s = "SWSH07" -> <<"S", "W", "S", "H", "0", "7">>
      [] s = "SWSH07.5" -> <<"S", "W", "S", "H", "0", "7", ".", "5">>
      [] s = "SWSH08" -> <<"S", "W", "S", "H", "0", "8">>
      [] s = "SWSH09" -> <<"S", "W", "S", "H", "0", "9">>
      [] s = "SWSH10" -> <<"S", "W", "S", "H", "1", "0">>
      [] s = "SWSH11" -> <<"S", "W", "S", "H", "1", "1">>
      [] s = "SWSH12" -> <<"S", "W", "S", "H", "1", "2">>
      [] s = "SWSH12.5" -> <<"S", "W", "S", "H", "1", "2", ".", "5">>
      [] s = "Card" -> <<"C", "a", "r", "d">>
      [] s = "Booster Box" -> <<"B", "o", "o", "s", "t", "e", "r", " ", "B", "o", "x">>
      [] s = "Elite Trainer Box" -> <<"E", "l", "i", "t", "e", " ", "T", "r", "a", "i", "n", "e", "r", " ", "B", "o", "x">>

\* the printable ASCII characters in code order, from code 32 (space);
\* code 96 is written "grave"
AsciiTable ==
    << " ", "!", "\"", "#", "$", "%", "&", "'", "(", ")", "*", "+",
       ",", "-", ".", "/", "0", "1", "2", "3", "4", "5", "6", "7",
       "8", "9", ":", ";", "<", "=", ">", "?", "@", "A", "B", "C",
       "D", "E", "F", "G", "H", "I", "J", "K", "L", "M", "N", "O",
       "P", "Q", "R", "S", "T", "U", "V", "W", "X", "Y", "Z", "[",
       "\\", "]", "^", "_", "grave", "a", "b", "c", "d", "e", "f", "g",
       "h", "i", "j", "k", "l", "m", "n", "o", "p", "q", "r", "s",
       "t", "u", "v", "w", "x", "y", "z", "{", "|", "}", "~" >>
\* the characters that str.strip() removes: those for which str.isspace() is
\* true. A character that a string constant cannot hold is written by its
\* name or its code point
Whitespace ==
    {" ", "\t", "\n", "VT", "\f", "\r", "FS", "GS", "RS", "US", "NEL", "NBSP",
     "U+1680", "U+2000", "U+2001", "U+2002", "U+2003", "U+2004", "U+2005",
     "U+2006", "U+2007", "U+2008", "U+2009", "U+200A", "U+2028", "U+2029",
     "U+202F", "U+205F", "U+3000"}

\* the control characters from code 9 to code 31, by name where a string
\* constant cannot hold them
ControlTable ==
    << "\t", "\n", "VT", "\f", "\r", "SO", "SI", "DLE", "DC1", "DC2", "DC3",
       "DC4", "NAK", "SYN", "ETB", "CAN", "EM", "SUB", "ESC", "FS", "GS", "RS",
       "US" >>

\* the whitespace characters above code 126 with their codes
HighWhitespace ==
    { <<"NEL", 133>>, <<"NBSP", 160>>, <<"U+1680", 5760>>, <<"U+2000", 8192>>,
      <<"U+2001", 8193>>, <<"U+2002", 8194>>, <<"U+2003", 8195>>,
      <<"U+2004", 8196>>, <<"U+2005", 8197>>, <<"U+2006", 8198>>,
      <<"U+2007", 8199>>, <<"U+2008", 8200>>, <<"U+2009", 8201>>,
      <<"U+200A", 8202>>, <<"U+2028", 8232>>, <<"U+2029", 8233>>,
      <<"U+202F", 8239>>, <<"U+205F", 8287>>, <<"U+3000", 12288>> }

\* every character of the model with its code: the characters from code 9 to
\* code 126 and the whitespace above
CharCodes ==
    {<<(ControlTable \o AsciiTable)[i], 8 + i>> :
        i \in 1..(Len(ControlTable) + Len(AsciiTable))} \cup HighWhitespace

\* ord(c)
Ord(c) == (CHOOSE pair \in CharCodes : pair[1] = c)[2]

\* c.isspace()
IsSpace(c) == c \in Whitespace

RECURSIVE lstrip(_)
lstrip(p) == IF p # << >> /\ IsSpace(Head(p)) THEN lstrip(Tail(p)) ELSE p

RECURSIVE rstrip(_)
rstrip(p) ==
    IF p # << >> /\ IsSpace(p[Len(p)]) THEN rstrip(SubSeq(p, 1, Len(p) - 1))
    ELSE p

\* str.strip()
strip(p) == rstrip(lstrip(p))

RECURSIVE split(_, _)
\* str.split(','): the tokens between the separators, empty ones included
split(p, sep) ==
    IF \A i \in DOMAIN p : p[i] # sep THEN <<p>>
    ELSE LET k == CHOOSE i \in DOMAIN p :
                      p[i] = sep /\ \A j \in 1..(i - 1) : p[j] # sep
         IN <<SubSeq(p, 1, k - 1)>> \o split(SubSeq(p, k + 1, Len(p)), sep)

Contains(p, c) == \E i \in DOMAIN p : p[i] = c

\* fnmatch.translate: the position of the ']' that closes the class opened
\* before position i, or 0 when the '[' is a literal
ClassEnd(p, i) ==
    LET n == Len(p)
        j1 == IF i <= n /\ p[i] = "!" THEN i + 1 ELSE i
        j2 == IF j1 <= n /\ p[j1] = "]" THEN j1 + 1 ELSE j1
        closing == {j \in j2..n : p[j] = "]"}
    IN IF closing = {} THEN 0 ELSE CHOOSE j \in closing : \A k \in closing : j <= k

\* the sign of a range between two characters of a class body, once the body
\* is split (a hyphen that is itself a member stays the character "-")
RangeMark == "range"

RECURSIVE ClassStuff(_, _, _)
\* fnmatch.translate: the class body from position i on, after "Remove empty
\* ranges". A hyphen at position k or later that does not end the body is a
\* range sign, and the next one is searched three positions further; a range
\* whose start is above its end is taken out with both its ends, so that the
\* characters around it are joined
ClassStuff(stuff, i, k) ==
    IF i > Len(stuff) THEN << >>
    ELSE IF i + 1 < k \/ i + 2 > Len(stuff) \/ stuff[i + 1] # "-"
    THEN <<stuff[i]>> \o ClassStuff(stuff, i + 1, k)
    ELSE IF Ord(stuff[i]) > Ord(stuff[i + 2])
    THEN ClassStuff(stuff, i + 3, i + 4)
    ELSE <<stuff[i], RangeMark>> \o ClassStuff(stuff, i + 2, i + 4)

RECURSIVE InClassItems(_, _)
\* whether character c is one of the items (ranges, single characters)
InClassItems(items, c) ==
    IF items = << >> THEN FALSE
    ELSE IF Len(items) >= 3 /\ items[2] = RangeMark
         THEN \/ (Ord(items[1]) <= Ord(c) /\ Ord(c) <= Ord(items[3]))
              \/ InClassItems(SubSeq(items, 4, Len(items)), c)
         ELSE items[1] = c \/ InClassItems(Tail(items), c)

\* the items of the class: what follows the "!" of a negated class, where a
\* range sign right after the "!" is the character "-"
ClassItems(left) ==
    IF left[1] # "!" THEN left
    ELSE IF left[2] = RangeMark THEN <<"-">> \o SubSeq(left, 3, Len(left))
    ELSE Tail(left)

\* fnmatch.translate on what is left of the body: nothing never matches, "!"
\* alone matches every character, a first character "!" negates the class
ClassMatches(left, c) ==
    IF left = << >> THEN FALSE
    ELSE IF left = <<"!">> THEN TRUE
    ELSE InClassItems(ClassItems(left), c) # (left[1] = "!")

\* whether c matches the class whose body (between the brackets) is stuff
InClass(stuff, c) ==
    ClassMatches(ClassStuff(stuff, 1, IF stuff[1] = "!" THEN 3 ELSE 2), c)

RECURSIVE fnmatchcase(_, _)
\* fnmatch.fnmatchcase(name, pat) on character sequences
fnmatchcase(name, pat) ==
    IF pat = << >> THEN name = << >>
    ELSE IF Head(pat) = "*"
    THEN \E k \in 0..Len(name) :
             fnmatchcase(SubSeq(name, k + 1, Len(name)), Tail(pat))
    ELSE IF Head(pat) = "?"
    THEN name # << >> /\ fnmatchcase(Tail(name), Tail(pat))
    ELSE IF Head(pat) = "[" /\ ClassEnd(pat, 2) # 0
    THEN LET j == ClassEnd(pat, 2)
         IN /\ name # << >>
            /\ InClass(SubSeq(pat, 2, j - 1), Head(name))
            /\ fnmatchcase(Tail(name), SubSeq(pat, j + 1, Len(pat)))
    ELSE name # << >> /\ Head(name) = Head(pat)
         /\ fnmatchcase(Tail(name), Tail(pat))

\* mutant: the token is not stripped
expand_token_unstripped(p, valid_values) ==
    IF Contains(p, "*")
    THEN {v \in valid_values : fnmatchcase(VocabChars(v), p)}
    ELSE {v \in valid_values : VocabChars(v) = p}

\* the expansion of one comma-separated token p (not yet stripped)
expand_token(p, valid_values) ==
    IF Contains(strip(p), "*")
    THEN {v \in valid_values : fnmatchcase(VocabChars(v), strip(p))}
    ELSE {v \in valid_values : VocabChars(v) = strip(p)}

_expand_pattern(pattern, valid_values) ==
    IF pattern = <<"*">> THEN valid_values
    ELSE LET tokens == split(pattern, ",")
         IN UNION {expand_token(tokens[i], valid_values) : i \in DOMAIN tokens}

expand_set_pattern(pattern) == _expand_pattern(pattern, VALID_SETS)
expand_type_pattern(pattern) == _expand_pattern(pattern, VALID_TYPES)
\* mutant: every period is accepted as it is
validate_period_any(period) == TRUE

validate_period(period) == period \in VALID_PERIODS

\* ------------------------------------------------------------------------
\* IndexAggregator.apply_filters / create_subset
\* ------------------------------------------------------------------------
\* mutant: the boolean mask loses the first selected row
apply_filters_drop_first(rows, sets, types, period) ==
    LET valid_sets == expand_set_pattern(sets)
        valid_types == expand_type_pattern(types)
        used_period == IF validate_period(period) THEN period ELSE "3M"
    IN Tail2(SelectSeq(rows, LAMBDA r : /\ r.set \in valid_sets
                                        /\ r.type \in valid_types
                                        /\ r.period = used_period))

\* rows: a frame that has the set, type and period columns (any frame with
\* records, and any frame apply_filters returned)
apply_filters(rows, sets, types, period) ==
    LET valid_sets == expand_set_pattern(sets)
        valid_types == expand_type_pattern(types)
        used_period == IF validate_period(period) THEN period ELSE "3M"
    IN SelectSeq(rows, LAMBDA r : /\ r.set \in valid_sets
                                  /\ r.type \in valid_types
                                  /\ r.period = used_period)

\* rows: what read_csv returns for the input file
create_subset(rows, sets, types, period, fallback, flips) ==
    IF rows = << >> THEN << >>
    ELSE LET subset == apply_filters(rows, sets, types, period)
         IN IF subset = << >> THEN << >>
            ELSE align_complete(subset, fallback, flips)

\* mutant: the dates with the largest number of records
complete_dates_most_common(subset) ==
    {d \in Range(all_dates(subset)) :
        \A e \in Range(all_dates(subset)) :
            signatures_on_date(subset, e) <= signatures_on_date(subset, d)}

\* date_coverage[date_coverage == total_signatures].index
complete_dates(subset) ==
    LET total_signatures == Cardinality(signatures(subset))
    IN {d \in Range(all_dates(subset)) :
           signatures_on_date(subset, d) = total_signatures}

\* rows: what read_csv returns for the input file; for a source without
\* records that is pd.DataFrame(), which has no column, and df['set'] in
\* apply_filters raises KeyError.  The result is the exception raised ("" if
\* none) and the frame returned.
create_complete_subset(rows, sets, types, period) ==
    IF rows = << >> THEN [raised |-> "KeyError", result |-> << >>]
    ELSE LET subset == apply_filters(rows, sets, types, period)
         IN IF subset = << >> THEN [raised |-> "", result |-> << >>]
            ELSE IF complete_dates(subset) = {}
            THEN [raised |-> "", result |-> << >>]
            ELSE [raised |-> "",
                  result |-> sort_values(
                      SelectSeq(subset, LAMBDA r :
                          r.period_end_date \in complete_dates(subset)))]

\* ------------------------------------------------------------------------
\* IndexAggregator.aggregate_time_series
\* ------------------------------------------------------------------------
\* mutant: the volume is left out of the market value
market_value_price_only(row) == row.holofoil_price

\* subset_df_copy['market_value'] = holofoil_price * volume
market_value(row) == row.holofoil_price * row.volume

RECURSIVE aggregate_price(_)
\* the 'sum' aggregation of holofoil_price over one date group
aggregate_price(group) ==
    IF group = << >> THEN 0
    ELSE Head(group).holofoil_price + aggregate_price(Tail(group))

RECURSIVE aggregate_value(_)
\* the 'sum' aggregation of market_value over one date group
aggregate_value(group) ==
    IF group = << >> THEN 0
    ELSE market_value(Head(group)) + aggregate_value(Tail(group))

\* name: the label argument ("" when not given); prices in cents
aggregate_time_series(rows, name) ==
    IF rows = << >> THEN << >>
    ELSE LET dates == all_dates(rows)    \* groupby sorts the group keys
             point(date) ==
                 LET group == rows_on(rows, date)
                     base == [period_end_date |-> date,
                              aggregate_price |-> aggregate_price(group),
                              aggregate_value |-> aggregate_value(group)]
                 IN IF name # "" THEN base @@ [name |-> name] ELSE base
         IN [i \in 1..Len(dates) |-> point(dates[i])]

\* ------------------------------------------------------------------------
\* CoverageAnalyzer
\* ------------------------------------------------------------------------
\* mutant: the signature is the set code alone
_get_signature_set_by_set(rows) == {<<rows[i].set>> : i \in DOMAIN rows}

\* f"{row['set']}_{row['name']}_{row['type']}": the three parts are kept
\* as a tuple (no value of the explored datasets contains an underscore)
_get_signature_set(rows) ==
    {<<rows[i].set, rows[i].name, rows[i].type>> : i \in DOMAIN rows}

\* FilterValidationHelper.is_valid_filter_combination
is_valid_filter_combination(sets, types) ==
    expand_set_pattern(sets) # {} /\ expand_type_pattern(types) # {}

\* mutant: the empty result counts one signature
create_empty_one_signature(config) ==
    [filter_config |-> config,
     coverage_percentage |-> Pct(0, 1),
     signatures_found |-> 0,
     signatures_total |-> 1,
     optimal_start_date |-> None,
     records_before_start |-> 0,
     records_aligned |-> 0,
     time_series_points |-> 0,
     gap_fills_required |-> 0,
     missing_signatures |-> {},
     fallback_required |-> FALSE,
     quality_score |-> Pct(0, 1)]

\* CoverageResultFactory.create_empty
create_empty(config) ==
    [filter_config |-> config,
     coverage_percentage |-> Pct(0, 1),
     signatures_found |-> 0,
     signatures_total |-> 0,
     optimal_start_date |-> None,
     records_before_start |-> 0,
     records_aligned |-> 0,
     time_series_points |-> 0,
     gap_fills_required |-> 0,
     missing_signatures |-> {},
     fallback_required |-> FALSE,
     quality_score |-> Pct(0, 1)]

\* mutant: no clamp at zero
Max0_unclamped(x) == x

Max0(x) == IF x > 0 THEN x ELSE 0     \* max(0, x)

\* the metrics dict; optimal_start_date holds the day that strftime prints,
\* missing_signatures the set that list(...) enumerates
_extract_alignment_metrics(rows, fallback, flips) ==
    LET original_signatures == _get_signature_set(rows)
        original_record_count == Len(rows)
        aligned_df == align_complete(rows, fallback, flips)
    IN IF aligned_df = << >>
       THEN [coverage_percentage |-> Pct(0, 1),
             signatures_found |-> 0,
             signatures_total |-> Cardinality(original_signatures),
             optimal_start_date |-> None,
             records_before_start |-> 0,
             records_aligned |-> 0,
             time_series_points |-> 0,
             gap_fills_required |-> 0,
             missing_signatures |-> original_signatures,
             fallback_required |-> FALSE,
             quality_score |-> Pct(0, 1)]
       ELSE
         LET aligned_signatures == _get_signature_set(aligned_df)
             coverage_percentage ==
                 IF original_signatures # {}
                 THEN Pct(Cardinality(aligned_signatures),
                          Cardinality(original_signatures))
                 ELSE Pct(0, 1)
             records_before_start ==
                 Max0(original_record_count - Len(aligned_df) - 100)
             time_series_points ==
                 Cardinality({aligned_df[i].period_end_date : i \in DOMAIN aligned_df})
             expected_records == Cardinality(aligned_signatures) * time_series_points
             actual_records == Len(aligned_df)
             gap_fills_required == Max0(expected_records - actual_records)
             \* coverage * (0.8 + 0.2 * (1.0 if no gap fill else 0.5))
             quality_score ==
                 IF gap_fills_required = 0
                 THEN Pct(coverage_percentage.num * 10, coverage_percentage.den * 10)
                 ELSE Pct(coverage_percentage.num * 9, coverage_percentage.den * 10)
         IN [coverage_percentage |-> coverage_percentage,
             signatures_found |-> Cardinality(aligned_signatures),
             signatures_total |-> Cardinality(original_signatures),
             optimal_start_date |->
                 SetMin({aligned_df[i].period_end_date : i \in DOMAIN aligned_df}),
             records_before_start |-> records_before_start,
             records_aligned |-> Len(aligned_df),
             time_series_points |-> time_series_points,
             gap_fills_required |-> gap_fills_required,
             missing_signatures |-> original_signatures \ aligned_signatures,
             fallback_required |->
                 fallback /\ PctLess(coverage_percentage, Pct(1, 1)),
             quality_score |-> quality_score]

\* CoverageResultFactory.create_from_metrics
create_from_metrics(config, metrics) == [filter_config |-> config] @@ metrics

\* mutant: the source is never read
_load_and_cache_dataset_never(cache, source) == cache

\* _load_and_cache_dataset: the cache after the call (source: what
\* aggregator.read_csv returns for input_csv)
_load_and_cache_dataset(cache, source) ==
    IF ~cache.loaded THEN [loaded |-> TRUE, rows |-> source] ELSE cache

\* the CoverageResult of analyze_filter_combination on the cached dataset
analyze_filter_combination(rows, config, fallback, flips) ==
    IF ~is_valid_filter_combination(config.sets, config.types)
    THEN create_empty(config)
    ELSE IF rows = << >> THEN create_empty(config)
    ELSE LET filtered_df == apply_filters(rows, config.sets, config.types,
                                          config.period)
         IN IF filtered_df = << >> THEN create_empty(config)
            ELSE create_from_metrics(config,
                     _extract_alignment_metrics(filtered_df, fallback, flips))

\* ------------------------------------------------------------------------
\* The explored datasets and arguments
\* ------------------------------------------------------------------------
RowOrders == {"by_signature", "reversed"}
CoverageRowOrders == {"by_signature"}

CellsByDate ==
    [n \in 1..(NumSigs * NumDates) |->
        <<((n - 1) % NumSigs) + 1, ((n - 1) \div NumSigs) + 1>>]
CellsBySignature ==
    [n \in 1..(NumSigs * NumDates) |->
        <<((n - 1) \div NumDates) + 1, ((n - 1) % NumDates) + 1>>]

\* the dataset holding the observed records of the cells in present,
\* each signature at most once per date, in the given row order
Dataset(present, order) ==
    LET cells == IF order = "by_signature" THEN CellsBySignature
                 ELSE Reverse(CellsByDate)
        kept == SelectSeq(cells, LAMBDA c : c \in present)
    IN [n \in 1..Len(kept) |-> Observed(kept[n][1], kept[n][2])]

CellSets == {present \in SUBSET Cells : Cardinality(present) <= MaxRows}
Datasets(orders) ==
    {Dataset(present, order) : present \in CellSets, order \in orders}

P(sets, types, period) == [sets |-> sets, types |-> types, period |-> period]
NoFilter == P(<< >>, << >>, "")

\* the filter arguments of the create_subset calls
SetPatterns == { <<"*">>, <<"S", "V", "0", "1">> }
TypePatterns == { <<"*">> }
Periods == {"3M"}
\* the filter combinations analyzed ("SV11" names no valid set, "Pack" no
\* valid type)
CoverageConfigs ==
    { P(<<"*">>, <<"*">>, "3M"),
      P(<<"S", "V", "0", "2", ",", " ", "S", "W", "S", "H", "*">>, <<"*">>, "3M"),
      P(<<"S", "V", "*">>, <<"*", "B", "o", "x">>, "3M"),
      P(<<"S", "V", "0", "1">>, <<"*">>, "1Y"),
      P(<<"S", "V", "1", "1">>, <<"*">>, "3M"),
      P(<<"*">>, <<"P", "a", "c", "k">>, "3M") }
Labels == {"", "SV_Box"}

\* the dates on which Step 2 visits more than one missing signature
FlipDates(rows) ==
    {d \in Range(all_dates(rows)) :
        Cardinality(signatures(rows) \ signatures(rows_on(rows, d))) >= 2}

\* ------------------------------------------------------------------------
\* CoverageAnalyzer: dataset summary and caches
\* ------------------------------------------------------------------------
RECURSIVE SortedStrings(_)
\* sorted(S) for a set of strings
SortedStrings(S) ==
    IF S = {} THEN << >>
    ELSE LET m == CHOOSE x \in S : \A y \in S : StrRank(x) <= StrRank(y)
         IN <<m>> \o SortedStrings(S \ {m})

SetMax(S) == CHOOSE x \in S : \A y \in S : y <= x

\* the signature cache after get_dataset_summary on the cached rows: it is
\* set when it is None and the dataset is not empty
cache_signatures(cache, rows) ==
    IF rows # << >> /\ ~cache.loaded
    THEN [loaded |-> TRUE, signatures |-> _get_signature_set(rows)]
    ELSE cache

\* get_dataset_summary: the dictionary returned for the cached rows and the
\* signature cache (dates stay day numbers; strftime is not modelled)
get_dataset_summary(rows, cache) ==
    IF rows = << >>
    THEN [total_records |-> 0, unique_signatures |-> 0,
          date_range |-> <<None, None>>, available_sets |-> << >>,
          available_types |-> << >>, max_possible_coverage |-> 0]
    ELSE LET sigs == cache_signatures(cache, rows).signatures
             dates == {rows[i].period_end_date : i \in DOMAIN rows}
         IN [total_records |-> Len(rows),
             unique_signatures |-> Cardinality(sigs),
             date_range |-> <<SetMin(dates), SetMax(dates)>>,
             available_sets |-> SortedStrings({rows[i].set : i \in DOMAIN rows}),
             available_types |-> SortedStrings({rows[i].type : i \in DOMAIN rows}),
             max_possible_coverage |-> Cardinality(sigs)]

\* clear_cache: both caches are None afterwards
clear_cache == [dataset |-> [loaded |-> FALSE, rows |-> << >>],
                signatures |-> [loaded |-> FALSE, signatures |-> {}]]

\* ------------------------------------------------------------------------
\* ConfigurationManager
\* ------------------------------------------------------------------------
\* a character of the class [a-zA-Z0-9_-]
NameChar(c) ==
    \/ c \in {"_", "-"}
    \/ /\ c \in Range(AsciiTable)
       /\ Ord(c) \in (48..57) \cup (65..90) \cup (97..122)

MaxNameLength == 50

\* validate_configuration_name: re.match(r"^[a-zA-Z0-9_-]+$", name), where $
\* also matches before a final newline, and 1 <= len(name) <= 50
validate_configuration_name(name) ==
    LET core == IF Len(name) >= 1 /\ name[Len(name)] = "\n"
                THEN SubSeq(name, 1, Len(name) - 1) ELSE name
    IN /\ core # << >>
       /\ \A i \in DOMAIN core : NameChar(core[i])
       /\ Len(name) >= 1 /\ Len(name) <= MaxNameLength

\* validate_filter_format: the three keys are present, the patterns expand
\* to something and the period is "3M"
validate_filter_format(filters) ==
    /\ {"sets", "types", "period"} \ DOMAIN filters = {}
    /\ ("sets" \in DOMAIN filters /\ "types" \in DOMAIN filters)
          => is_valid_filter_combination(filters.sets, filters.types)
    /\ "period" \in DOMAIN filters => filters.period \in {"3M"}

\* ConfigurationFactory.create_config_entry at time now (no data/output.csv
\* exists: the fingerprint is "")
create_config_entry(name, display_name, filters, validation_metadata, description, updating_existing, existing_usage, now) ==
    LET keep == updating_existing /\ DOMAIN existing_usage # {}
    IN [name |-> name, display_name |-> display_name,
        description |-> description, filters |-> filters,
        validation_metadata |-> validation_metadata,
        usage_statistics |->
            [created_at |-> IF keep THEN existing_usage.created_at ELSE now,
             last_used |-> IF keep THEN existing_usage.last_used ELSE None,
             use_count |-> IF keep THEN existing_usage.use_count ELSE 0,
             last_validation |-> now],
        system_metadata |->
            [created_by_version |-> "workbench-v1.0",
             dataset_fingerprint |-> "",
             validation_dataset_size |-> validation_metadata.signatures_total]]

\* ConfigurationManagerHelper.update_usage_stats(config, action) at time now
update_usage_stats(config, action, now) ==
    IF action = "use"
    THEN [config EXCEPT !.usage_statistics.last_used = now,
                        !.usage_statistics.use_count = @ + 1]
    ELSE IF action = "validate"
    THEN [config EXCEPT !.usage_statistics.last_validation = now]
    ELSE config

\* what the disk does to one save_json_atomic:
\*   "written"    every step succeeds;
\*   "failed"     mkdir, open or a write inside json.dump raises and the
\*                unlink of the except clause succeeds;
\*   "truncated"  the data stays in the buffer of the file object, which is
\*                never closed or flushed: the write fails when the object is
\*                finalized, that error is dropped, and the short temporary
\*                file replaces the configuration file;
\*   "raised"     the try block raises and so does the unlink of the except
\*                clause (a directory at the temporary path)
DiskOutcomes == {"written", "failed", "truncated", "raised"}

\* what _load_configurations_file gives for a file that json.load rejects:
\* the "configurations" of _create_empty_config_structure()
UnreadableFile == << >>

\* the configurations that the next load sees after
\* _save_configurations_file(data), and the value returned ("raised" when the
\* exception leaves save_json_atomic)
save_json_atomic(file, data, disk) ==
    CASE disk = "written" -> [configurations |-> data, value |-> "True"]
      [] disk = "truncated" -> [configurations |-> UnreadableFile, value |-> "True"]
      [] disk = "failed" -> [configurations |-> file, value |-> "False"]
      [] disk = "raised" -> [configurations |-> file, value |-> "raised"]

\* the decorator resilient_config_operation around the method func_name: an
\* exception becomes False when the name starts with save, delete or update,
\* and None otherwise
resilient_config_operation(func_name, result) ==
    IF result.value = "raised"
    THEN [result EXCEPT !.value =
             IF func_name \in {"save_configuration", "delete_configuration",
                               "update_usage_statistics"}
             THEN "False" ELSE "None"]
    ELSE result

Unchanged(file) == [configurations |-> file, value |-> "False"]

\* data["configurations"] with the entry of name set or removed
Put(data, name, entry) ==
    [n \in DOMAIN data \cup {name} |-> IF n = name THEN entry ELSE data[n]]
Remove(data, name) == [n \in DOMAIN data \ {name} |-> data[n]]

\* save_configuration(name, display_name, filters, validation_metadata,
\* description) at time now
save_configuration(file, name, display_name, filters, validation_metadata, description, now, disk) ==
    IF ~validate_configuration_name(name) THEN Unchanged(file)
    ELSE IF ~validate_filter_format(filters) THEN Unchanged(file)
    ELSE LET updating_existing == name \in DOMAIN file
             existing_usage == IF updating_existing
                               THEN file[name].usage_statistics ELSE << >>
             entry == create_config_entry(name, display_name, filters,
                          validation_metadata, description, updating_existing,
                          existing_usage, now)
         IN resilient_config_operation("save_configuration",
                save_json_atomic(file, Put(file, name, entry), disk))

\* delete_configuration(name)
delete_configuration(file, name, disk) ==
    IF name \notin DOMAIN file THEN Unchanged(file)
    ELSE resilient_config_operation("delete_configuration",
             save_json_atomic(file, Remove(file, name), disk))

\* update_usage_statistics(name) at time now
update_usage_statistics(file, name, now, disk) ==
    IF name \notin DOMAIN file THEN Unchanged(file)
    ELSE resilient_config_operation("update_usage_statistics",
             save_json_atomic(file,
                 Put(file, name, update_usage_stats(file[name], "use", now)),
                 disk))

\* refresh_validation_metadata(name, new_validation_metadata) at time now
refresh_validation_metadata(file, name, new_validation_metadata, now, disk) ==
    IF name \notin DOMAIN file THEN Unchanged(file)
    ELSE LET config == [file[name] EXCEPT
                           !.validation_metadata = new_validation_metadata]
         IN resilient_config_operation("refresh_validation_metadata",
                save_json_atomic(file,
                    Put(file, name, update_usage_stats(config, "validate", now)),
                    disk))

\* ------------------------------------------------------------------------
\* WebClient
\* ------------------------------------------------------------------------
\* what one session.get followed by raise_for_status can give: a body, an
\* HTTPError carrying the status of the response, or another
\* RequestException
Ok(body) == [kind |-> "ok", status |-> 200, body |-> body]
HTTPError(status) == [kind |-> "HTTPError", status |-> status, body |-> ""]
RequestException(name) == [kind |-> name, status |-> 0, body |-> ""]

\* mutant: every failure is retried
retry_left_always(n, retries) == TRUE

\* "attempt < self.max_retries - 1"
retry_left(n, retries) == n < retries - 1

\* the except clauses of fetch: TRUE when the loop continues, FALSE when the
\* exception is raised again
continues(response, n, retries) ==
    IF response.kind = "HTTPError"
    THEN response.status = 429 /\ retry_left(n, retries)
    ELSE retry_left(n, retries)

\* ------------------------------------------------------------------------
\* CoverageAnalyzer: discovery and alternatives
\* ------------------------------------------------------------------------
\* sorted(FilterValidator.VALID_SETS)
SortedValidSets ==
    << "SV01", "SV02", "SV03", "SV03.5", "SV04", "SV04.5", "SV05", "SV06",
       "SV06.5", "SV07", "SV08", "SV08.5", "SV09", "SV10", "SWSH06", "SWSH07",
       "SWSH07.5", "SWSH08", "SWSH09", "SWSH10", "SWSH11", "SWSH12",
       "SWSH12.5" >>

Star == <<"*">>
StarBox == <<"*", "B", "o", "x">>
SVStar == <<"S", "V", "*">>
SWSHStar == <<"S", "W", "S", "H", "*">>

\* _generate_filter_combinations: the candidates, in the order the code
\* builds them
_generate_filter_combinations ==
    LET generations == <<SVStar, SWSHStar>>
        types == <<VocabChars("Card"), StarBox, VocabChars("Booster Box"),
                   VocabChars("Elite Trainer Box")>>
        high == [n \in 1..(Len(generations) * Len(types)) |->
                    P(generations[((n - 1) \div Len(types)) + 1],
                      types[((n - 1) % Len(types)) + 1], "3M")]
        medium == [n \in 1..Len(SortedValidSets) |->
                      P(VocabChars(SortedValidSets[n]), Star, "3M")]
        lower == << P(Star, VocabChars("Card"), "3M"),
                    P(Star, StarBox, "3M"),
                    P(VocabChars("SV01") \o <<",">> \o VocabChars("SV02")
                          \o <<",">> \o VocabChars("SV03"), Star, "3M") >>
    IN high \o medium \o lower

\* A RecommendationResult (description and command_string, two texts
\* derived from filter_config and the coverage, are left out).
RecommendationResult(rank, config, result) ==
    [rank |-> rank, filter_config |-> config, coverage_result |-> result,
     estimated_records |-> result.records_aligned]

\* one analysis, as recorded in evaluated: the step that made it, its
\* filters and its allow_fallback
Analysis(strategy, config, fallback) ==
    [strategy |-> strategy, config |-> config, fallback |-> fallback]

\* the loop of discover_viable_configurations from candidate k on: the
\* recommendations appended and the analyses made
RECURSIVE discover_loop(_, _, _, _, _, _, _, _)
discover_loop(rows, combos, k, min_coverage, max_recommendations, fallback, recs, done) ==
    IF k > Len(combos) \/ Len(recs) >= max_recommendations
    THEN [recommendations |-> recs, evaluated |-> done]
    ELSE LET combo == combos[k]
             result == analyze_filter_combination(rows, combo, fallback, {})
             kept == IF PctLeq(min_coverage, result.coverage_percentage)
                     THEN Append(recs, RecommendationResult(Len(recs) + 1,
                                                            combo, result))
                     ELSE recs
         IN discover_loop(rows, combos, k + 1, min_coverage,
                          max_recommendations, fallback, kept,
                          Append(done, Analysis("candidate", combo, fallback)))

\* the sort key (coverage_percentage, estimated_records): a >= b
RecKeyGeq(a, b) ==
    \/ PctLess(b.coverage_result.coverage_percentage,
               a.coverage_result.coverage_percentage)
    \/ /\ PctEq(a.coverage_result.coverage_percentage,
                b.coverage_result.coverage_percentage)
       /\ a.estimated_records >= b.estimated_records

\* list.sort(key, reverse=True): descending and stable, so a recommendation
\* goes behind every one whose key is at least its own and that came before it,
\* and behind every one whose key is greater
SortedPosition(recs, i) ==
    1 + Cardinality({j \in DOMAIN recs :
                        \/ ~RecKeyGeq(recs[i], recs[j])
                        \/ j < i /\ RecKeyGeq(recs[j], recs[i])})

sort_recommendations(recs) ==
    [p \in DOMAIN recs |->
        recs[CHOOSE i \in DOMAIN recs : SortedPosition(recs, i) = p]]

\* the pass that skips the sort
rerank_unsorted(recs) == [i \in DOMAIN recs |-> [recs[i] EXCEPT !.rank = i]]

\* sort, then setattr(rec, 'rank', i) for i, rec in enumerate(recs, 1)
rerank(recs) ==
    LET sorted == sort_recommendations(recs)
    IN [i \in DOMAIN sorted |-> [sorted[i] EXCEPT !.rank = i]]

\* discover_viable_configurations(min_coverage, max_recommendations,
\* include_fallback_options) on the cached dataset
discover_viable_configurations(rows, min_coverage, max_recommendations, include_fallback_options) ==
    CHOOSE out \in
        {[recommendations |-> rerank(loop.recommendations),
          evaluated |-> loop.evaluated] :
            loop \in {discover_loop(rows, _generate_filter_combinations, 1,
                                    min_coverage, max_recommendations,
                                    include_fallback_options, << >>, << >>)}} :
        TRUE

\* FilterValidationHelper.get_default_configurations (filters only)
get_default_configurations ==
    << P(SVStar, VocabChars("Card"), "3M"),
       P(SVStar, StarBox, "3M"),
       P(SWSHStar, VocabChars("Card"), "3M") >>

\* alternatives[:n] for n >= 0
Prefix(seq, n) == SubSeq(seq, 1, IF n < Len(seq) THEN n ELSE Len(seq))

\* one analysis that suggest_alternatives may make: the strategy it belongs
\* to, the filters, the allow_fallback flag and its position in its strategy
SuggestStep(strategy, config, fallback, index) ==
    [strategy |-> strategy, config |-> config, fallback |-> fallback,
     index |-> index]

\* the analyses in the order of the function body: strategy 1 on the failed
\* configuration; strategy 2 on SV* and SWSH* when the failed sets hold a
\* comma or are "*"; strategy 3 on Card and *Box when the failed types are
\* "*"; strategy 0 on default_configs[:max_alternatives]
suggest_steps(failed_config, max_alternatives) ==
    LET defaults == Prefix(get_default_configurations, max_alternatives)
    IN <<SuggestStep("fallback", failed_config, TRUE, 1)>>
       \o (IF Contains(failed_config.sets, ",") \/ failed_config.sets = Star
           THEN <<SuggestStep("generation",
                              P(SVStar, failed_config.types, failed_config.period),
                              FALSE, 1),
                  SuggestStep("generation",
                              P(SWSHStar, failed_config.types, failed_config.period),
                              FALSE, 2)>>
           ELSE << >>)
       \o (IF failed_config.types = Star
           THEN <<SuggestStep("type",
                              P(failed_config.sets, VocabChars("Card"),
                                failed_config.period),
                              FALSE, 1),
                  SuggestStep("type",
                              P(failed_config.sets, StarBox, failed_config.period),
                              FALSE, 2)>>
           ELSE << >>)
       \o [i \in DOMAIN defaults |-> SuggestStep("default", defaults[i], FALSE, i)]

\* the variant that evaluates the defaults whatever the strategies produced
defaults_needed_always(alternatives) == TRUE

\* strategy 0 runs "if len(alternatives) == 0"
defaults_needed(alternatives) == Len(alternatives) = 0

\* the condition on the list under which a strategy's block is entered
strategy_entered(strategy, alternatives, max_alternatives) ==
    CASE strategy = "type" -> Len(alternatives) < max_alternatives
      [] strategy = "default" -> defaults_needed(alternatives)
      [] OTHER -> TRUE

\* the condition under which a strategy appends the analyzed configuration
alternative_appended(strategy, coverage_percentage, alternatives, max_alternatives) ==
    CASE strategy \in {"generation", "type"} ->
             /\ PctLess(Pct(8, 10), coverage_percentage)
             /\ Len(alternatives) < max_alternatives
      [] OTHER -> PctLess(Pct(0, 1), coverage_percentage)

\* rank=1, rank=len(alternatives) + 1, and rank=i + 1 in strategy 0
alternative_rank(step, alternatives) ==
    CASE step.strategy = "fallback" -> 1
      [] step.strategy = "default" -> step.index
      [] OTHER -> Len(alternatives) + 1

\* the body of suggest_alternatives from step k on: a block whose condition
\* fails at its first step is skipped whole
RECURSIVE suggest_loop(_, _, _, _, _, _)
suggest_loop(rows, steps, k, max_alternatives, skipping, acc) ==
    IF k > Len(steps) THEN acc
    ELSE LET step == steps[k]
             skipped == IF step.index = 1
                        THEN ~strategy_entered(step.strategy, acc.alternatives,
                                               max_alternatives)
                        ELSE skipping
         IN IF skipped
            THEN suggest_loop(rows, steps, k + 1, max_alternatives, TRUE, acc)
            ELSE suggest_loop(rows, steps, k + 1, max_alternatives, FALSE,
                     CHOOSE next \in
                         {[alternatives |->
                              IF alternative_appended(step.strategy,
                                     result.coverage_percentage,
                                     acc.alternatives, max_alternatives)
                              THEN Append(acc.alternatives,
                                          RecommendationResult(
                                              alternative_rank(step, acc.alternatives),
                                              step.config, result))
                              ELSE acc.alternatives,
                           evaluated |-> Append(acc.evaluated,
                                                Analysis(step.strategy, step.config,
                                                         step.fallback))] :
                             result \in {analyze_filter_combination(
                                             rows, step.config, step.fallback, {})}} :
                         TRUE)

\* suggest_alternatives(failed_config, max_alternatives) on the cached
\* dataset: returns alternatives[:max_alternatives]
suggest_alternatives(rows, failed_config, max_alternatives) ==
    CHOOSE out \in
        {[recommendations |-> Prefix(done.alternatives, max_alternatives),
          evaluated |-> done.evaluated] :
            done \in {suggest_loop(rows,
                                   suggest_steps(failed_config, max_alternatives),
                                   1, max_alternatives, FALSE,
                                   [alternatives |-> << >>, evaluated |-> << >>])}} :
        TRUE

NoStep1 == [date |-> None, coverage_pct |-> Pct(0, 1)]

\* no discover / suggest call yet
NoRequest ==
    [op |-> "", config |-> NoFilter, min_coverage |-> Pct(0, 1), max |-> 0,
     fallback |-> FALSE]
NoPrevious == [request |-> NoRequest, recommendations |-> << >>]

\* CoverageAnalyzer.__init__: _signature_cache = None
NoSignatures == [loaded |-> FALSE, signatures |-> {}]
NoSummary == [total_records |-> 0 - 1]

\* no ConfigurationManager call yet
NoCall == [op |-> "", name |-> << >>, filters |-> << >>,
           validation_metadata |-> << >>, value |-> "None"]

\* WebClient.__init__(timeout=30, max_retries=3, base_delay=1.0)
DefaultMaxRetries == 3
NoError == [kind |-> "", status |-> 0, body |-> ""]
NoFetch == [kind |-> "", body |-> "", error |-> NoError]
\* fetch returned a text ("None" stands for None), or raised an exception
FetchReturned(body) == [kind |-> "returned", body |-> body, error |-> NoError]
FetchRaised(error) == [kind |-> "raised", body |-> "", error |-> error]
InitClient(retries) ==
    /\ max_retries = retries
    /\ attempt = 0
    /\ responses = << >>
    /\ fetch_result = NoFetch

\* the aligner, the aggregator and the analyzer before their first call
InitIdle ==
    /\ pc = "ready"
    /\ step1 = NoStep1
    /\ subset_df = << >>
    /\ ts_df = << >>
    /\ dataset_cache = [loaded |-> FALSE, rows |-> << >>]
    /\ analyzed = {}
    /\ coverage_result = [b \in BOOLEAN |-> << >>]
    /\ expanded_sets = {}
    /\ expanded_types = {}
    /\ raised = ""

\* no discovery and no summary yet
InitNoCalls ==
    /\ request = NoRequest
    /\ recommendations = << >>
    /\ evaluated = << >>
    /\ previous = NoPrevious
    /\ signature_cache = NoSignatures
    /\ summary = NoSummary

\* ConfigurationManager.__init__: a new, empty configuration file
InitStore ==
    /\ configurations = << >>
    /\ clock = 1
    /\ config_call = NoCall
    /\ uses = << >>

InitAnalyzer == InitIdle /\ InitNoCalls /\ InitStore

InitCommon == InitAnalyzer /\ InitClient(DefaultMaxRetries)

\* ------------------------------------------------------------------------
\* Specification of the aligner and the aggregator
\* ------------------------------------------------------------------------
Init ==
    /\ InitCommon
    /\ df \in Datasets(RowOrders)
    /\ allow_fallback \in BOOLEAN
    /\ filter_config = NoFilter

\* a direct call of Step 1 on the dataset
FindFirstCompleteCoverageDate ==
    /\ pc = "ready"
    /\ step1' = _1_find_first_complete_coverage_date(df, allow_fallback)
    /\ pc' = "step1"
    /\ UNCHANGED <<extVars, df, allow_fallback, subset_df, ts_df, filter_config, coverageVars, filterVars>>

\* aligner.align_complete(df, allow_fallback)
AlignComplete ==
    /\ pc = "ready"
    /\ \E flips \in SUBSET FlipDates(df) :
          subset_df' = align_complete(df, allow_fallback, flips)
    /\ step1' = _1_find_first_complete_coverage_date(df, allow_fallback)
    /\ pc' = "aligned"
    /\ UNCHANGED <<extVars, df, allow_fallback, ts_df, filter_config, coverageVars, filterVars>>

\* aggregator.create_subset(input_path, sets, types, period, allow_fallback)
CreateSubset ==
    /\ pc = "ready"
    /\ \E sets \in SetPatterns, types \in TypePatterns, period \in Periods :
          LET subset == apply_filters(df, sets, types, period)
          IN /\ filter_config' = P(sets, types, period)
             /\ \E flips \in SUBSET FlipDates(subset) :
                   subset_df' = create_subset(df, sets, types, period,
                                              allow_fallback, flips)
             /\ step1' = _1_find_first_complete_coverage_date(subset, allow_fallback)
    /\ pc' = "subset"
    /\ UNCHANGED <<extVars, df, allow_fallback, ts_df, coverageVars, filterVars>>

\* aggregator.aggregate_time_series(subset_df, name)
AggregateTimeSeries ==
    /\ pc \in {"aligned", "subset"}
    /\ \E name \in Labels : ts_df' = aggregate_time_series(subset_df, name)
    /\ pc' = "aggregated"
    /\ UNCHANGED <<extVars, df, allow_fallback, step1, subset_df, filter_config, coverageVars, filterVars>>

Next ==
    \/ FindFirstCompleteCoverageDate
    \/ AlignComplete
    \/ CreateSubset
    \/ AggregateTimeSeries

Spec == Init /\ [][Next]_vars

\* ------------------------------------------------------------------------
\* Specification of the coverage analyzer
\* ------------------------------------------------------------------------
InitCoverage ==
    /\ InitCommon
    /\ df \in Datasets(CoverageRowOrders)
    /\ allow_fallback = FALSE
    /\ filter_config \in CoverageConfigs

\* analyzer.analyze_filter_combination(sets, types, period, allow_fallback)
AnalyzeFilterCombination ==
    \E fallback \in BOOLEAN :
       /\ fallback \notin analyzed
       /\ LET valid == is_valid_filter_combination(filter_config.sets,
                                                   filter_config.types)
              cache == IF valid THEN _load_and_cache_dataset(dataset_cache, df)
                       ELSE dataset_cache
              filtered == apply_filters(cache.rows, filter_config.sets,
                                        filter_config.types, filter_config.period)
          IN /\ dataset_cache' = cache
             /\ \E flips \in SUBSET FlipDates(filtered) :
                   coverage_result' =
                       [coverage_result EXCEPT ![fallback] =
                           analyze_filter_combination(cache.rows, filter_config,
                                                      fallback, flips)]
       /\ analyzed' = analyzed \cup {fallback}
       /\ pc' = "analyzed"
       /\ UNCHANGED <<extVars, df, allow_fallback, alignVars, filter_config, filterVars>>

NextCoverage == AnalyzeFilterCombination

SpecCoverage == InitCoverage /\ [][NextCoverage]_vars

\* ------------------------------------------------------------------------
\* Specification of the filters: apply_filters and create_complete_subset
\* ------------------------------------------------------------------------
\* the filter combinations ("SV11" names no valid set, "1Y" no valid period)
FilterConfigs ==
    { P(<<"*">>, <<"*">>, "3M"),
      P(<<"S", "V", "0", "1">>, <<"*">>, "1Y"),
      P(<<"S", "V", "*">>, <<"*", "B", "o", "x">>, "3M"),
      P(<<"S", "V", "0", "2">>, <<"C", "a", "r", "d">>, "3M"),
      P(<<"S", "V", "1", "1">>, <<"C", "a", "r", "d">>, "3M") }

InitFilter ==
    /\ InitCommon
    /\ df \in Datasets(CoverageRowOrders)
    /\ allow_fallback = FALSE
    /\ filter_config \in FilterConfigs

\* aggregator.apply_filters(df, sets, types, period) on the frame read_csv
\* returned, called as create_subset and analyze_filter_combination call
\* it: after their df.empty early return
ApplyFilters ==
    /\ pc = "ready"
    /\ df # << >>
    /\ expanded_sets' = expand_set_pattern(filter_config.sets)
    /\ expanded_types' = expand_type_pattern(filter_config.types)
    /\ subset_df' = apply_filters(df, filter_config.sets, filter_config.types,
                                  filter_config.period)
    /\ pc' = "filtered"
    /\ UNCHANGED <<extVars, df, allow_fallback, step1, ts_df, filter_config,
                   coverageVars, raised>>

\* aggregator.apply_filters on its own result, with the same arguments
ApplyFiltersAgain ==
    /\ pc = "filtered"
    /\ subset_df' = apply_filters(subset_df, filter_config.sets,
                                  filter_config.types, filter_config.period)
    /\ pc' = "refiltered"
    /\ UNCHANGED <<extVars, df, allow_fallback, step1, ts_df, filter_config,
                   coverageVars, filterVars>>

\* aggregator.create_complete_subset(input_path, sets, types, period)
CreateCompleteSubset ==
    /\ pc = "ready"
    /\ LET call == create_complete_subset(df, filter_config.sets,
                                          filter_config.types,
                                          filter_config.period)
       IN /\ raised' = call.raised
          /\ subset_df' = call.result
    /\ pc' = "complete"
    /\ UNCHANGED <<extVars, df, allow_fallback, step1, ts_df, filter_config,
                   coverageVars, expanded_sets, expanded_types>>

NextFilter ==
    \/ ApplyFilters
    \/ ApplyFiltersAgain
    \/ CreateCompleteSubset
    \/ CreateSubset

SpecFilter == InitFilter /\ [][NextFilter]_vars

\* ------------------------------------------------------------------------
\* Specification of the filter expander
\* ------------------------------------------------------------------------
\* the comma-separated tokens tried
ExpandTokens ==
    { <<"*">>,
      <<"S", "V", "*">>,
      <<"S", "V", "0", "1">>,
      <<" ", "S", "V", "0", "2", " ">>,
      <<"S", "V", "0", "1", "\t">>,
      <<"\n", "S", "V", "0", "*", "\r">>,
      <<"S", "V", "\t", "0", "1">>,
      <<"S", "V", "1", "1">>,
      <<"S", "V", "0", "?">>,
      <<"S", "V", "0", "[", "1", "2", "]">>,
      <<"S", "W", "S", "H", "*">>,
      <<"*", ".", "5">>,
      <<"s", "v", "*">>,
      << >>,
      <<"*", "B", "o", "x">>,
      <<"C", "a", "r", "d">>,
      <<"S", "?", "0", "[", "!", "1", "-", "8", "]", "*">>,
      <<"E", "l", "i", "t", "e", " ", "T", "r", "a", "i", "n", "e", "r", " ",
        "B", "o", "x">>,
      <<"[", "S", "]", "V", "1", "*">>,
      <<"S", "V", "0", "[", "9", "-", "0", "!", "]", "*">>,
      <<"S", "V", "0", "[", "2", "-", "1", "!", "5", "]", "*">>,
      <<"[", "Z", "-", "A", "!", "E", "]", "*">> }

\* the patterns tried: one token, or two tokens joined by a comma
ExpandPatterns ==
    ExpandTokens \cup {a \o <<",">> \o b : a \in ExpandTokens, b \in ExpandTokens}

InitExpand ==
    /\ InitCommon
    /\ df = << >>
    /\ allow_fallback = FALSE
    /\ filter_config \in {P(p, p, "3M") : p \in ExpandPatterns}

\* FilterValidator.expand_set_pattern(pattern)
ExpandSetPattern ==
    /\ pc = "ready"
    /\ expanded_sets' = expand_set_pattern(filter_config.sets)
    /\ pc' = "set_expanded"
    /\ UNCHANGED <<extVars, df, allow_fallback, alignVars, filter_config, coverageVars,
                   expanded_types, raised>>

\* FilterValidator.expand_type_pattern(pattern)
ExpandTypePattern ==
    /\ pc = "ready"
    /\ expanded_types' = expand_type_pattern(filter_config.types)
    /\ pc' = "type_expanded"
    /\ UNCHANGED <<extVars, df, allow_fallback, alignVars, filter_config, coverageVars,
                   expanded_sets, raised>>

NextExpand ==
    \/ ExpandSetPattern
    \/ ExpandTypePattern

SpecExpand == InitExpand /\ [][NextExpand]_vars

\* ------------------------------------------------------------------------
\* Specification of discovery: discover_viable_configurations and
\* suggest_alternatives
\* ------------------------------------------------------------------------
\* the datasets of the discovery calls: up to MaxRows - 2 records on the
\* first and the last date
DiscoverCellSets ==
    {present \in SUBSET (SigIds \X {1, NumDates}) :
        Cardinality(present) <= MaxRows - 2}
DiscoverDatasets == {Dataset(present, "by_signature") : present \in DiscoverCellSets}

\* the arguments of the discovery calls (0.9 and 10 are the defaults)
MinCoverages == {Pct(1, 2), Pct(9, 10)}
MaxRecommendations == {2, 10}

\* the failed configurations ("SV11" names no valid set)
FailedConfigs ==
    { P(Star, Star, "3M"),
      P(<<"S", "V", "0", "1", ",", "S", "V", "0", "2">>, Star, "3M"),
      P(<<"S", "V", "0", "1">>, Star, "3M"),
      P(SVStar, <<"C", "a", "r", "d">>, "3M"),
      P(SWSHStar, <<"C", "a", "r", "d">>, "3M"),
      P(<<"S", "V", "1", "1">>, <<"C", "a", "r", "d">>, "3M") }
MaxAlternatives == {0, 1, 3}

InitDiscover ==
    /\ InitCommon
    /\ df \in DiscoverDatasets
    /\ allow_fallback = FALSE
    /\ filter_config = NoFilter

\* the cache after a call that made the analyses in done: the first analysis
\* of valid filters loads the source
cache_after(cache, source, done) ==
    IF \E i \in DOMAIN done :
          is_valid_filter_combination(done[i].config.sets, done[i].config.types)
    THEN _load_and_cache_dataset(cache, source)
    ELSE cache

\* analyzer.discover_viable_configurations(min_coverage, max_recommendations,
\* include_fallback_options)
Discover(min_coverage, max_recommendations, include_fallback_options) ==
    \E call \in {discover_viable_configurations(
                      _load_and_cache_dataset(dataset_cache, df).rows,
                      min_coverage, max_recommendations,
                      include_fallback_options)} :
       /\ request' = [op |-> "discover", config |-> NoFilter,
                      min_coverage |-> min_coverage,
                      max |-> max_recommendations,
                      fallback |-> include_fallback_options]
       /\ recommendations' = call.recommendations
       /\ evaluated' = call.evaluated
       /\ previous' = [request |-> request, recommendations |-> recommendations]
       /\ dataset_cache' = cache_after(dataset_cache, df, call.evaluated)
       /\ UNCHANGED <<summaryVars, configVars, fetchVars, df, allow_fallback,
                      alignVars, filter_config, analyzed, coverage_result,
                      filterVars>>

DiscoverViableConfigurations ==
    /\ pc = "ready"
    /\ \E min_coverage \in MinCoverages, max_recommendations \in MaxRecommendations,
          include_fallback_options \in BOOLEAN :
          Discover(min_coverage, max_recommendations, include_fallback_options)
    /\ pc' = "discovered"

\* analyzer.suggest_alternatives(failed_config, max_alternatives)
SuggestAlternatives ==
    /\ pc = "ready"
    /\ \E failed_config \in FailedConfigs, max_alternatives \in MaxAlternatives :
          \E call \in {suggest_alternatives(
                            _load_and_cache_dataset(dataset_cache, df).rows,
                            failed_config, max_alternatives)} :
             /\ request' = [op |-> "suggest", config |-> failed_config,
                            min_coverage |-> Pct(0, 1),
                            max |-> max_alternatives, fallback |-> FALSE]
             /\ recommendations' = call.recommendations
             /\ evaluated' = call.evaluated
             /\ dataset_cache' = cache_after(dataset_cache, df, call.evaluated)
    /\ pc' = "suggested"
    /\ UNCHANGED <<previous, summaryVars, configVars, fetchVars, df,
                   allow_fallback, alignVars, filter_config, analyzed,
                   coverage_result, filterVars>>

NextDiscover ==
    \/ DiscoverViableConfigurations
    \/ SuggestAlternatives

SpecDiscover == InitDiscover /\ [][NextDiscover]_vars

\* ------------------------------------------------------------------------
\* Specification of two discovery calls on one analyzer
\* ------------------------------------------------------------------------
\* the datasets of the paired calls: at most one record of each signature,
\* on the first or the last date
TwiceCellSets ==
    {present \in SUBSET (SigIds \X {1, NumDates}) :
        /\ Cardinality(present) <= MaxRows
        /\ \A c, d \in present : c[1] = d[1] => c = d}
TwiceDatasets == {Dataset(present, "by_signature") : present \in TwiceCellSets}

InitDiscoverTwice ==
    /\ InitCommon
    /\ df \in TwiceDatasets
    /\ allow_fallback = FALSE
    /\ filter_config = NoFilter

\* a second discover_viable_configurations call on the same analyzer, with
\* a floor at least as high and a limit at most as high as the first call's
DiscoverAgain ==
    /\ pc = "discovered"
    /\ \E min_coverage \in MinCoverages, max_recommendations \in MaxRecommendations,
          include_fallback_options \in BOOLEAN :
          /\ PctLeq(request.min_coverage, min_coverage)
          /\ max_recommendations <= request.max
          /\ Discover(min_coverage, max_recommendations, include_fallback_options)
    /\ pc' = "discovered_again"

NextDiscoverTwice ==
    \/ DiscoverViableConfigurations
    \/ DiscoverAgain

SpecDiscoverTwice == InitDiscoverTwice /\ [][NextDiscoverTwice]_vars

\* ------------------------------------------------------------------------
\* Specification of the caches: analyses, summaries and clear_cache in any
\* order on one analyzer, over a source that does not change
\* ------------------------------------------------------------------------
\* the filters of the analyses ("SV11" names no valid set)
CacheConfigs ==
    { P(Star, Star, "3M"),
      P(<<"S", "V", "0", "1">>, Star, "3M"),
      P(<<"S", "V", "1", "1">>, <<"C", "a", "r", "d">>, "3M") }

InitCache ==
    /\ InitCommon
    /\ df \in DiscoverDatasets
    /\ allow_fallback = FALSE
    /\ filter_config = NoFilter

\* analyzer.analyze_filter_combination(sets, types, period, allow_fallback),
\* at any time
AnalyzeCached ==
    /\ \E config \in CacheConfigs, fallback \in BOOLEAN :
          LET valid == is_valid_filter_combination(config.sets, config.types)
              cache == IF valid THEN _load_and_cache_dataset(dataset_cache, df)
                       ELSE dataset_cache
          IN /\ dataset_cache' = cache
             /\ filter_config' = config
             /\ allow_fallback' = fallback
             /\ coverage_result' =
                   [coverage_result EXCEPT ![fallback] =
                       analyze_filter_combination(cache.rows, config, fallback, {})]
             /\ analyzed' = analyzed \cup {fallback}
    /\ pc' = "analyzed"
    /\ UNCHANGED <<discoverVars, summaryVars, configVars, fetchVars, df,
                   alignVars, filterVars>>

\* analyzer.get_dataset_summary()
GetDatasetSummary ==
    /\ LET cache == _load_and_cache_dataset(dataset_cache, df)
       IN /\ dataset_cache' = cache
          /\ signature_cache' = cache_signatures(signature_cache, cache.rows)
          /\ summary' = get_dataset_summary(cache.rows, signature_cache)
    /\ pc' = "summarized"
    /\ UNCHANGED <<discoverVars, configVars, fetchVars, df, allow_fallback,
                   alignVars, filter_config, analyzed, coverage_result,
                   filterVars>>

\* analyzer.clear_cache()
ClearCache ==
    /\ dataset_cache' = clear_cache.dataset
    /\ signature_cache' = clear_cache.signatures
    /\ pc' = "cleared"
    /\ UNCHANGED <<discoverVars, summary, configVars, fetchVars, df,
                   allow_fallback, alignVars, filter_config, analyzed,
                   coverage_result, filterVars>>

NextCache ==
    \/ AnalyzeCached
    \/ GetDatasetSummary
    \/ ClearCache

SpecCache == InitCache /\ [][NextCache]_vars

\* ------------------------------------------------------------------------
\* Specification of the configuration store: saves, usage updates,
\* validation refreshes and deletions in any order on one file
\* ------------------------------------------------------------------------
MaxCalls == 3    \* calls made on the store

\* the names of the calls ("a " is not a valid name)
ConfigNames == { <<"a">>, <<"b", "_", "2">>, <<"a", " ">> }
\* the filters of the saves (no set matches "SV11"; the last has no period)
ConfigFilters ==
    { P(SVStar, <<"C", "a", "r", "d">>, "3M"),
      P(Star, Star, "3M"),
      P(<<"S", "V", "1", "1">>, <<"C", "a", "r", "d">>, "3M"),
      [sets |-> Star, types |-> Star] }
ValidationMetadata == { [signatures_total |-> 2], [signatures_total |-> 3] }

\* the entry of a configuration that an earlier manager saved (at time -2)
\* and used once (at time -1)
UsedEntry(name) ==
    update_usage_stats(
        create_config_entry(name, "Display", P(Star, Star, "3M"),
                            [signatures_total |-> 2], "", FALSE, << >>, 0 - 2),
        "use", 0 - 1)

\* the file is new, or holds one configuration that was used once
InitConfig ==
    /\ InitIdle
    /\ InitNoCalls
    /\ InitClient(DefaultMaxRetries)
    /\ df = << >>
    /\ allow_fallback = FALSE
    /\ filter_config = NoFilter
    /\ clock = 1
    /\ config_call = NoCall
    /\ \/ configurations = << >> /\ uses = << >>
       \/ \E name \in {n \in ConfigNames : validate_configuration_name(n)} :
             /\ configurations = Put(<< >>, name, UsedEntry(name))
             /\ uses = Put(<< >>, name, 1)

\* the counts of the names that the file still holds
Stored(counts, file) == [n \in DOMAIN counts \cap DOMAIN file |-> counts[n]]

Call(op, name, filters, validation_metadata, result) ==
    /\ clock <= MaxCalls
    /\ configurations' = result.configurations
    /\ config_call' = [op |-> op, name |-> name, filters |-> filters,
                       validation_metadata |-> validation_metadata,
                       value |-> result.value]
    /\ clock' = clock + 1
    /\ pc' = op
    /\ UNCHANGED <<discoverVars, summaryVars, fetchVars, df, allow_fallback,
                   alignVars, filter_config, coverageVars, filterVars>>

\* manager.save_configuration(name, display_name, filters,
\* validation_metadata, description)
SaveConfiguration ==
    \E name \in ConfigNames, filters \in ConfigFilters,
       validation_metadata \in ValidationMetadata, disk \in DiskOutcomes :
       LET result == save_configuration(configurations, name, "Display",
                         filters, validation_metadata, "", clock, disk)
       IN /\ Call("save", name, filters, validation_metadata, result)
          /\ uses' = Stored(IF result.value = "True"
                                /\ name \notin DOMAIN configurations
                             THEN Put(uses, name, 0) ELSE uses,
                             result.configurations)

\* manager.update_usage_statistics(name)
UpdateUsageStatistics ==
    \E name \in ConfigNames, disk \in DiskOutcomes :
       LET result == update_usage_statistics(configurations, name, clock, disk)
       IN /\ Call("update", name, << >>, << >>, result)
          /\ uses' = Stored(IF result.value = "True"
                             THEN Put(uses, name, uses[name] + 1) ELSE uses,
                             result.configurations)

\* manager.refresh_validation_metadata(name, new_validation_metadata)
RefreshValidationMetadata ==
    \E name \in ConfigNames, validation_metadata \in ValidationMetadata,
       disk \in DiskOutcomes :
       LET result == refresh_validation_metadata(configurations, name,
                         validation_metadata, clock, disk)
       IN /\ Call("refresh", name, << >>, validation_metadata, result)
          /\ uses' = Stored(uses, result.configurations)

\* manager.delete_configuration(name)
DeleteConfiguration ==
    \E name \in ConfigNames, disk \in DiskOutcomes :
       LET result == delete_configuration(configurations, name, disk)
       IN /\ Call("delete", name, << >>, << >>, result)
          /\ uses' = Stored(IF result.value = "True"
                             THEN Remove(uses, name) ELSE uses,
                             result.configurations)

NextConfig ==
    \/ SaveConfiguration
    \/ UpdateUsageStatistics
    \/ RefreshValidationMetadata
    \/ DeleteConfiguration

SpecConfig == InitConfig /\ [][NextConfig]_vars

\* ------------------------------------------------------------------------
\* Specification of WebClient.fetch: one call, request by request
\* ------------------------------------------------------------------------
MaxRetries == 3    \* largest max_retries of a client

\* the outcomes of a GET request
Responses ==
    { Ok("<html>"), Ok(""), HTTPError(429), HTTPError(404), HTTPError(500),
      RequestException("ConnectionError"), RequestException("Timeout") }

InitFetch ==
    /\ InitAnalyzer
    /\ \E retries \in 0..MaxRetries : InitClient(retries)
    /\ df = << >>
    /\ allow_fallback = FALSE
    /\ filter_config = NoFilter

\* "for attempt in range(self.max_retries)" reaching n: the next request, or
\* the end of the loop, after which fetch returns None
Iterate(n) ==
    /\ attempt' = n
    /\ IF n < max_retries
       THEN pc' = "requesting" /\ fetch_result' = fetch_result
       ELSE pc' = "returned" /\ fetch_result' = FetchReturned("None")

\* client.fetch(url) is called
Fetch ==
    /\ pc = "ready"
    /\ Iterate(0)
    /\ UNCHANGED <<max_retries, responses, discoverVars, summaryVars,
                   configVars, df, allow_fallback, alignVars, filter_config,
                   coverageVars, filterVars>>

\* one iteration of the loop: the delay, the GET request and what fetch
\* does with its outcome
Get ==
    /\ pc = "requesting"
    /\ \E response \in Responses :
          /\ responses' = Append(responses, response)
          /\ IF response.kind = "ok"
             THEN /\ fetch_result' = FetchReturned(response.body)
                  /\ pc' = "returned"
                  /\ attempt' = attempt
             ELSE IF continues(response, attempt, max_retries)
             THEN Iterate(attempt + 1)
             ELSE /\ fetch_result' = FetchRaised(response)
                  /\ pc' = "raised"
                  /\ attempt' = attempt
    /\ UNCHANGED <<max_retries, discoverVars, summaryVars, configVars, df,
                   allow_fallback, alignVars, filter_config, coverageVars,
                   filterVars>>

NextFetch ==
    \/ Fetch
    \/ Get

\* every GET request ends: session.get is given timeout=self.timeout and the
\* delays are finite
SpecFetch == InitFetch /\ [][NextFetch]_vars /\ WF_vars(Get)

\* ------------------------------------------------------------------------
\* Properties of the aligner and the aggregator
\* ------------------------------------------------------------------------
Aligned == pc \in {"aligned", "subset"}

\* the dataset handed to align_complete by the last call
AlignInput ==
    IF pc = "subset"
    THEN apply_filters(df, filter_config.sets, filter_config.types,
                       filter_config.period)
    ELSE df

HasRecord(rows, sig, date) ==
    \E i \in DOMAIN rows : Sig(rows[i]) = sig /\ rows[i].period_end_date = date
DatesIn(rows) == {rows[i].period_end_date : i \in DOMAIN rows}
\* the dates that carry every signature of the rows
CompleteDates(rows) ==
    {d \in DatesIn(rows) : \A sig \in signatures(rows) : HasRecord(rows, sig, d)}
CountOn(rows, d) ==
    Cardinality({sig \in signatures(rows) : HasRecord(rows, sig, d)})
Synthesized(row) == row.timestamp = NowStamp
CellCount(rows, sig, date) ==
    Cardinality({i \in DOMAIN rows :
                    Sig(rows[i]) = sig /\ rows[i].period_end_date = date})

\* C1: with allow_fallback off and an input that has a date carrying every
\* signature, the output of align_complete / create_subset holds exactly one
\* record for every (input signature, input date at or after the first
\* complete date), nothing else, and every input record of such a cell
\* unchanged.
C1_CompleteMatrix ==
    (Aligned /\ ~allow_fallback /\ CompleteDates(AlignInput) # {}) =>
        LET input == AlignInput
            start == SetMin(CompleteDates(input))
        IN /\ \A sig \in signatures(input) :
                \A d \in {x \in DatesIn(input) : x >= start} :
                    /\ CellCount(subset_df, sig, d) = 1
                    /\ \A j \in DOMAIN input :
                          (Sig(input[j]) = sig /\ input[j].period_end_date = d)
                          => \E i \in DOMAIN subset_df : subset_df[i] = input[j]
           /\ \A i \in DOMAIN subset_df :
                /\ Sig(subset_df[i]) \in signatures(input)
                /\ subset_df[i].period_end_date \in DatesIn(input)
                /\ subset_df[i].period_end_date >= start

\* a gap was filled and an early, incomplete date was dropped
C1_Witness ==
    /\ Aligned /\ ~allow_fallback
    /\ CompleteDates(AlignInput) # {}
    /\ \E i \in DOMAIN subset_df : Synthesized(subset_df[i])
    /\ \E d \in DatesIn(AlignInput) : d < SetMin(CompleteDates(AlignInput))

Rectangular(rows) ==
    Len(rows) = Cardinality(signatures(rows)) * Cardinality(DatesIn(rows))

\* C2 as stated: every non-empty output of align_complete, with
\* allow_fallback on or off, has (distinct signatures) x (distinct dates)
\* records.
C2_Original == (Aligned /\ subset_df # << >>) => Rectangular(subset_df)

\* C2 amended: a non-empty output of align_complete is rectangular whenever
\* some date of the input carries every signature (Step 1 reports 100%),
\* with allow_fallback on or off.
C2_RectangularWhenComplete ==
    (Aligned /\ subset_df # << >> /\ CompleteDates(AlignInput) # {})
        => Rectangular(subset_df)

\* a rectangular output with allow_fallback on and at least one gap filled
C2_Witness ==
    /\ Aligned /\ allow_fallback
    /\ CompleteDates(AlignInput) # {}
    /\ \E i \in DOMAIN subset_df : Synthesized(subset_df[i])
    /\ Rectangular(subset_df)

\* Scenario A: three signatures, all on 2025-01-03 (day 3), exactly two of
\* them also on 2025-01-05 (day 5), no other record
ScenarioA(rows) ==
    /\ Cardinality(signatures(rows)) = 3
    /\ DatesIn(rows) = {3, 5}
    /\ CountOn(rows, 3) = 3
    /\ CountOn(rows, 5) = 2
    /\ Len(rows) = 5

\* C3 as stated: on Scenario A, create_subset without fallback returns
\* exactly 4 records, the earliest dated 2025-01-03.
C3_Original ==
    (pc = "subset" /\ ~allow_fallback /\ ScenarioA(AlignInput)) =>
        /\ Len(subset_df) = 4
        /\ SetMin(DatesIn(subset_df)) = 3

\* C3 amended: on Scenario A, create_subset without fallback returns exactly
\* 6 records (the 5 input records and 1 gap fill), the earliest dated
\* 2025-01-03.
C3_ScenarioA ==
    (pc = "subset" /\ ~allow_fallback /\ ScenarioA(AlignInput)) =>
        /\ Len(subset_df) = 6
        /\ Cardinality({i \in DOMAIN subset_df : Synthesized(subset_df[i])}) = 1
        /\ SetMin(DatesIn(subset_df)) = 3

C3_Witness ==
    /\ pc = "subset" /\ ~allow_fallback /\ ScenarioA(AlignInput)
    /\ Len(subset_df) = 6

\* C4: Step 1 returns the earliest date carrying all N signatures with 100%
\* coverage whatever allow_fallback is; without such a date and with
\* fallback on, the earliest of the dates carrying the largest number of
\* signatures, with that date's coverage, below 100%; otherwise no date and
\* coverage 0.
C4_Step1 ==
    (pc = "step1") =>
        LET n == Cardinality(signatures(df))
            complete == CompleteDates(df)
            most == {d \in DatesIn(df) :
                        \A e \in DatesIn(df) : CountOn(df, e) <= CountOn(df, d)}
        IN IF df # << >> /\ complete # {}
           THEN /\ step1.date = SetMin(complete)
                /\ PctEq(step1.coverage_pct, Pct(100, 1))
           ELSE IF df # << >> /\ allow_fallback
           THEN /\ step1.date = SetMin(most)
                /\ PctEq(step1.coverage_pct, Pct(100 * CountOn(df, SetMin(most)), n))
                /\ PctLess(step1.coverage_pct, Pct(100, 1))
           ELSE /\ step1.date = None
                /\ PctEq(step1.coverage_pct, Pct(0, 1))

\* fallback chose a date although a later date has the same coverage
C4_Witness ==
    /\ pc = "step1" /\ allow_fallback
    /\ CompleteDates(df) = {}
    /\ step1.date # None
    /\ \E d \in DatesIn(df) :
          d > step1.date /\ CountOn(df, d) = CountOn(df, step1.date)

\* C5: when no date carries every signature of the (filtered) input and
\* allow_fallback is off, align_complete and create_subset return the empty
\* dataset.
C5_EmptyWithoutFallback ==
    (Aligned /\ ~allow_fallback /\ CompleteDates(AlignInput) = {})
        => subset_df = << >>

\* a non-empty input without a complete date was aligned to nothing
C5_Witness ==
    /\ Aligned /\ ~allow_fallback
    /\ AlignInput # << >>
    /\ CompleteDates(AlignInput) = {}
    /\ subset_df = << >>

\* C6: for the same dataset and filter combination,
\* analyze_filter_combination with allow_fallback on reports a
\* coverage_percentage and a records_aligned that are each at least the
\* values it reports with allow_fallback off.
C6_FallbackMonotonic ==
    (analyzed = {TRUE, FALSE}) =>
        /\ PctLeq(coverage_result[FALSE].coverage_percentage,
                  coverage_result[TRUE].coverage_percentage)
        /\ coverage_result[FALSE].records_aligned
              <= coverage_result[TRUE].records_aligned

\* both analyses ran and only the one with fallback aligned anything
C6_Witness ==
    /\ analyzed = {TRUE, FALSE}
    /\ coverage_result[FALSE].records_aligned = 0
    /\ coverage_result[TRUE].records_aligned > 0
    /\ PctLess(coverage_result[FALSE].coverage_percentage,
               coverage_result[TRUE].coverage_percentage)

\* the input records a gap fill of the row's signature may copy: those of
\* the signature at or after the start date and strictly before the row
Earlier(row) ==
    LET start == SetMin(DatesIn(subset_df))
    IN {j \in DOMAIN AlignInput :
           /\ Sig(AlignInput[j]) = Sig(row)
           /\ AlignInput[j].period_end_date >= start
           /\ AlignInput[j].period_end_date < row.period_end_date}

\* the latest of them
Source(row) ==
    AlignInput[CHOOSE j \in Earlier(row) : \A k \in Earlier(row) :
                   AlignInput[k].period_end_date <= AlignInput[j].period_end_date]

\* C7: every synthesized record carries the price and the volume of the
\* real input record of its signature with the latest period_end_date at or
\* after the start date and strictly before its own date.
C7_GapFillConservation ==
    Aligned =>
        \A i \in DOMAIN subset_df :
            Synthesized(subset_df[i]) =>
                /\ Earlier(subset_df[i]) # {}
                /\ subset_df[i].holofoil_price = Source(subset_df[i]).holofoil_price
                /\ subset_df[i].volume = Source(subset_df[i]).volume

\* a gap was filled from a record later than the start date
C7_Witness ==
    /\ Aligned
    /\ \E i \in DOMAIN subset_df :
          /\ Synthesized(subset_df[i])
          /\ Earlier(subset_df[i]) # {}
          /\ Source(subset_df[i]).period_end_date > SetMin(DatesIn(subset_df))
          /\ subset_df[i].holofoil_price = Source(subset_df[i]).holofoil_price

SpanDays(row) == row.period_end_date - row.period_start_date

\* C8: every synthesized record spans as many days from period_start_date
\* to period_end_date as the record it was copied from.
C8_SpanPreserved ==
    Aligned =>
        \A i \in DOMAIN subset_df :
            (Synthesized(subset_df[i]) /\ Earlier(subset_df[i]) # {}) =>
                SpanDays(subset_df[i]) = SpanDays(Source(subset_df[i]))

\* C9: every non-empty output of align_complete is ordered ascending by
\* (period_end_date, set, name).
C9_Sorted ==
    (Aligned /\ subset_df # << >>) =>
        \A i \in DOMAIN subset_df : \A j \in DOMAIN subset_df :
            i < j => KeyLeq(subset_df[i], subset_df[j])

RECURSIVE PriceTotal(_, _)
\* the sum of the prices of the rows at the positions in I
PriceTotal(rows, I) ==
    IF I = {} THEN 0
    ELSE LET i == CHOOSE x \in I : TRUE
         IN rows[i].holofoil_price + PriceTotal(rows, I \ {i})

RECURSIVE ValueTotal(_, _)
\* the sum of price x volume of the rows at the positions in I
ValueTotal(rows, I) ==
    IF I = {} THEN 0
    ELSE LET i == CHOOSE x \in I : TRUE
         IN rows[i].holofoil_price * rows[i].volume + ValueTotal(rows, I \ {i})

PositionsOn(rows, d) == {i \in DOMAIN rows : rows[i].period_end_date = d}

\* one row per distinct date, ascending, each with the two sums
SumsPerDate ==
    /\ Len(ts_df) = Cardinality(DatesIn(subset_df))
    /\ \A i \in DOMAIN ts_df : \A j \in DOMAIN ts_df :
          i < j => ts_df[i].period_end_date < ts_df[j].period_end_date
    /\ \A i \in DOMAIN ts_df :
          LET d == ts_df[i].period_end_date
          IN /\ d \in DatesIn(subset_df)
             /\ ts_df[i].aggregate_price = PriceTotal(subset_df, PositionsOn(subset_df, d))
             /\ ts_df[i].aggregate_value = ValueTotal(subset_df, PositionsOn(subset_df, d))
    /\ (subset_df = << >> => ts_df = << >>)

\* Scenario C: three records of one date with prices 100.50, 200.00, 150.75
\* and volumes 5, 10, 3
ScenarioC(rows) ==
    /\ Len(rows) = 3
    /\ Cardinality(DatesIn(rows)) = 1
    /\ {<<rows[i].holofoil_price, rows[i].volume>> : i \in DOMAIN rows}
          = {<<10050, 5>>, <<20000, 10>>, <<15075, 3>>}

\* C10 as stated: one row per date, ascending, with the sum of price and
\* the sum of price x volume; empty input gives an empty result; Scenario C
\* gives 451.25 and 3160.75.
C10_Original ==
    (pc = "aggregated") =>
        /\ SumsPerDate
        /\ ScenarioC(subset_df) =>
              /\ ts_df[1].aggregate_price = 45125
              /\ ts_df[1].aggregate_value = 316075

\* C10 amended: as stated, but Scenario C gives 451.25 and 2954.75
\* (100.50 x 5 + 200.00 x 10 + 150.75 x 3).
C10_Aggregate ==
    (pc = "aggregated") =>
        /\ SumsPerDate
        /\ ScenarioC(subset_df) =>
              /\ ts_df[1].aggregate_price = 45125
              /\ ts_df[1].aggregate_value = 295475

\* Scenario C was aggregated
C10_Witness ==
    /\ pc = "aggregated"
    /\ ScenarioC(subset_df)
    /\ Len(ts_df) = 1
    /\ ts_df[1].aggregate_value = 295475

\* ------------------------------------------------------------------------
\* Properties of the filters
\* ------------------------------------------------------------------------
\* the records apply_filters selects from the source for the filters in use
FilteredInput ==
    apply_filters(df, filter_config.sets, filter_config.types,
                  filter_config.period)

\* C11: create_complete_subset returns exactly the filtered input records
\* whose period_end_date carries every signature of the filtered input,
\* each unchanged and none added, and the empty dataset when no date does.
C11_CompleteSubsetOnlyReal ==
    (pc = "complete" /\ raised = "") =>
        LET input == FilteredInput
            kept == {input[i] : i \in {j \in DOMAIN input :
                        input[j].period_end_date \in CompleteDates(input)}}
        IN /\ Range(subset_df) = kept
           /\ Len(subset_df) = Cardinality(kept)
           /\ (CompleteDates(input) = {} => subset_df = << >>)

\* an incomplete date was dropped and a complete one kept
C11_Witness ==
    /\ pc = "complete" /\ raised = ""
    /\ Cardinality(signatures(FilteredInput)) >= 2
    /\ subset_df # << >>
    /\ Len(subset_df) < Len(FilteredInput)

\* C12: on a source dataset without records, create_subset and
\* create_complete_subset raise nothing and return the empty dataset.
C12_EmptySource ==
    (pc \in {"subset", "complete"} /\ df = << >>) =>
        /\ raised = ""
        /\ subset_df = << >>

\* the characters that make a token a shell-glob pattern
HasClass(t) == \E i \in DOMAIN t : t[i] = "[" /\ ClassEnd(t, i + 1) # 0
HasGlob(t) == Contains(t, "*") \/ Contains(t, "?") \/ HasClass(t)

\* the rules of C13 for one pattern, its vocabulary and its expansion
ExpansionRules(pattern, vocabulary, expansion) ==
    LET tokens == split(pattern, ",")
    IN /\ expansion \subseteq vocabulary
       /\ (pattern = <<"*">> => expansion = vocabulary)
       /\ (Len(tokens) = 1 /\ ~HasGlob(pattern)) =>
              expansion = {v \in vocabulary : VocabChars(v) = strip(pattern)}
       /\ expansion = UNION {_expand_pattern(strip(tokens[i]), vocabulary) :
                                i \in DOMAIN tokens}

\* C13: expand_set_pattern and expand_type_pattern raise nothing and return
\* a subset of their vocabulary: '*' gives the whole vocabulary, a token
\* without wildcard the singleton of the trimmed token if it is in the
\* vocabulary and the empty set otherwise, a comma-separated pattern the
\* union of the expansions of its trimmed tokens; 'SV*' gives exactly the 14
\* set codes that begin with SV.
C13_Expansion ==
    /\ (pc = "set_expanded") =>
          /\ raised = ""
          /\ ExpansionRules(filter_config.sets, VALID_SETS, expanded_sets)
          /\ (filter_config.sets = <<"S", "V", "*">>) =>
                /\ Cardinality(expanded_sets) = 14
                /\ expanded_sets =
                      {v \in VALID_SETS : SubSeq(VocabChars(v), 1, 2) = <<"S", "V">>}
    /\ (pc = "type_expanded") =>
          /\ raised = ""
          /\ ExpansionRules(filter_config.types, VALID_TYPES, expanded_types)

\* two tokens written with blanks around them expanded to two set codes
C13_Witness ==
    /\ pc = "set_expanded"
    /\ filter_config.sets =
          <<"S", "V", "0", "1", ",", " ", "S", "V", "0", "2", " ">>
    /\ expanded_sets = {"SV01", "SV02"}

\* the rule of C14 for one pattern: every token with a wildcard character
\* contributes exactly the vocabulary values it matches
GlobRule(pattern, vocabulary, expansion) ==
    LET tokens == split(pattern, ",")
        matches(t) == {v \in vocabulary : fnmatchcase(VocabChars(v), strip(t))}
    IN /\ \A i \in DOMAIN tokens :
             HasGlob(strip(tokens[i])) => matches(tokens[i]) \subseteq expansion
       /\ (Len(tokens) = 1 /\ HasGlob(strip(pattern))) =>
              expansion = matches(pattern)

\* C14: for every comma-separated token that contains '*', '?' or a '[...]'
\* class, the expansion contains exactly the vocabulary values the token
\* matches under case-sensitive shell-glob matching.
C14_GlobMatching ==
    /\ (pc = "set_expanded") =>
          GlobRule(filter_config.sets, VALID_SETS, expanded_sets)
    /\ (pc = "type_expanded") =>
          GlobRule(filter_config.types, VALID_TYPES, expanded_types)

\* C15: apply_filters with a period other than '3M' raises nothing and
\* returns the records it returns for '3M' with the same set and type
\* patterns; every record of a result is an input record, unchanged, whose
\* set and type are in the expanded sets.
C15_InvalidPeriodDefaults ==
    (pc = "filtered") =>
        /\ raised = ""
        /\ subset_df = apply_filters(df, filter_config.sets,
                                     filter_config.types, "3M")
        /\ \A i \in DOMAIN subset_df :
              /\ \E j \in DOMAIN df : df[j] = subset_df[i]
              /\ subset_df[i].set \in expanded_sets
              /\ subset_df[i].type \in expanded_types

\* period '1Y' selected some of the records, not all
C15_Witness ==
    /\ pc = "filtered"
    /\ filter_config.period = "1Y"
    /\ subset_df # << >>
    /\ Len(subset_df) < Len(df)

\* C16: apply_filters applied to its own result with the same arguments
\* returns a dataset identical to that result.
C16_Idempotent ==
    [][(pc = "filtered" /\ pc' = "refiltered") => subset_df' = subset_df]_vars

\* a result that kept some records and dropped others was filtered again
C16_Witness ==
    /\ pc = "refiltered"
    /\ Len(subset_df) >= 2
    /\ Len(subset_df) < Len(df)

\* ------------------------------------------------------------------------
\* Properties of the coverage analyzer
\* ------------------------------------------------------------------------
ValidConfig ==
    expand_set_pattern(filter_config.sets) # {}
        /\ expand_type_pattern(filter_config.types) # {}

Zero(pct) == PctEq(pct, Pct(0, 1))

\* coverage 0.0, no start date and the five counters other than
\* signatures_total at 0
ZeroCoverage(r) ==
    /\ Zero(r.coverage_percentage)
    /\ r.optimal_start_date = None
    /\ r.signatures_found = 0
    /\ r.records_before_start = 0
    /\ r.records_aligned = 0
    /\ r.time_series_points = 0
    /\ r.gap_fills_required = 0

\* C17: when the set pattern or the type pattern expands to the empty set,
\* analyze_filter_combination raises nothing and returns coverage 0.0,
\* signatures_found 0, signatures_total 0, no start date, every counter 0,
\* no missing signature, fallback_required false and quality_score 0.0,
\* whatever the dataset and allow_fallback.
C17_InvalidPatterns ==
    \A b \in analyzed :
        ~ValidConfig =>
            /\ raised = ""
            /\ ZeroCoverage(coverage_result[b])
            /\ coverage_result[b].signatures_total = 0
            /\ coverage_result[b].missing_signatures = {}
            /\ coverage_result[b].fallback_required = FALSE
            /\ Zero(coverage_result[b].quality_score)
            /\ coverage_result[b].filter_config = filter_config

\* both analyses of an invalid type pattern ran on a dataset with records
C17_Witness ==
    /\ analyzed = {TRUE, FALSE}
    /\ expand_set_pattern(filter_config.sets) # {}
    /\ expand_type_pattern(filter_config.types) = {}
    /\ Len(df) >= 2
    /\ coverage_result[TRUE].signatures_total = 0

\* the analysis without fallback of filtered records none of whose dates
\* carries every signature
EmptyAlignment ==
    /\ FALSE \in analyzed
    /\ ValidConfig
    /\ FilteredInput # << >>
    /\ CompleteDates(FilteredInput) = {}

\* C18 as stated: when the filters select records but alignment yields
\* nothing, the result has coverage 0.0, no start date and every counter 0,
\* signatures_total included.
C18_Original ==
    EmptyAlignment =>
        /\ ZeroCoverage(coverage_result[FALSE])
        /\ coverage_result[FALSE].signatures_total = 0

\* C18 amended: in that case the result has coverage 0.0, no start date and
\* signatures_found, records_before_start, records_aligned,
\* time_series_points and gap_fills_required 0, while signatures_total is
\* the number of signatures of the filtered records and missing_signatures
\* holds all of them.
C18_EmptyAlignment ==
    EmptyAlignment =>
        /\ ZeroCoverage(coverage_result[FALSE])
        /\ coverage_result[FALSE].signatures_total
              = Cardinality(signatures(FilteredInput))
        /\ coverage_result[FALSE].signatures_total >= 1
        /\ Cardinality(coverage_result[FALSE].missing_signatures)
              = coverage_result[FALSE].signatures_total

\* nothing aligned for records of two signatures of the same set
C18_Witness ==
    /\ EmptyAlignment
    /\ coverage_result[FALSE].signatures_total >= 2
    /\ Cardinality({FilteredInput[i].set : i \in DOMAIN FilteredInput}) = 1

\* C19: every CoverageResult has coverage_percentage and quality_score in
\* [0, 1], 0 <= signatures_found <= signatures_total, as many
\* missing_signatures as signatures_total - signatures_found, and
\* non-negative records_before_start, records_aligned, time_series_points
\* and gap_fills_required.
C19_ResultRanges ==
    \A b \in analyzed :
        LET r == coverage_result[b]
        IN /\ PctLeq(Pct(0, 1), r.coverage_percentage)
           /\ PctLeq(r.coverage_percentage, Pct(1, 1))
           /\ PctLeq(Pct(0, 1), r.quality_score)
           /\ PctLeq(r.quality_score, Pct(1, 1))
           /\ 0 <= r.signatures_found
           /\ r.signatures_found <= r.signatures_total
           /\ Cardinality(r.missing_signatures)
                 = r.signatures_total - r.signatures_found
           /\ r.records_before_start >= 0
           /\ r.records_aligned >= 0
           /\ r.time_series_points >= 0
           /\ r.gap_fills_required >= 0

\* fallback aligned some of the signatures, not all
C19_Witness ==
    /\ TRUE \in analyzed
    /\ coverage_result[TRUE].signatures_found >= 1
    /\ coverage_result[TRUE].signatures_found
          < coverage_result[TRUE].signatures_total
    /\ coverage_result[TRUE].missing_signatures # {}
    /\ PctLess(coverage_result[TRUE].quality_score, Pct(1, 1))

\* C20: when alignment is non-empty, gap_fills_required is (aligned
\* signatures x distinct aligned dates) minus the number of real input
\* records at or after the start date.
C20_GapFills ==
    \A b \in analyzed :
        LET r == coverage_result[b]
        IN (ValidConfig /\ r.records_aligned > 0) =>
              r.gap_fills_required =
                  r.signatures_found * r.time_series_points
                    - Len(rows_from(FilteredInput, r.optimal_start_date))

\* the records the aligner returns for the filtered input (the number and
\* the origin of its records do not depend on the set iteration order)
AlignedFor(fallback) == align_complete(FilteredInput, fallback, {})
SynthesizedFor(fallback) ==
    \E i \in DOMAIN AlignedFor(fallback) : Synthesized(AlignedFor(fallback)[i])

\* C21: quality_score is 1.0 only when coverage is 1.0 and no record of the
\* aligned dataset is synthesized; with at least one synthesized record the
\* score is strictly below 1.0.
C21_QualityScore ==
    \A b \in analyzed :
        LET r == coverage_result[b]
        IN (ValidConfig /\ r.records_aligned > 0) =>
              /\ PctEq(r.quality_score, Pct(1, 1)) =>
                    /\ PctEq(r.coverage_percentage, Pct(1, 1))
                    /\ ~SynthesizedFor(b)
              /\ SynthesizedFor(b) => PctLess(r.quality_score, Pct(1, 1))

\* C22: fallback_required is true exactly when allow_fallback was on, no
\* date of the filtered input carried every signature and Step 1 chose a
\* best-coverage date.
C22_FallbackExercised ==
    \A b \in analyzed :
        coverage_result[b].fallback_required =
            (/\ b
             /\ ValidConfig
             /\ FilteredInput # << >>
             /\ CompleteDates(FilteredInput) = {}
             /\ _1_find_first_complete_coverage_date(FilteredInput, b).date # None)

\* C27: when alignment is non-empty, records_before_start is the number of
\* filtered records dated before the optimal start date.
C27_RecordsBeforeStart ==
    \A b \in analyzed :
        LET r == coverage_result[b]
        IN (ValidConfig /\ r.records_aligned > 0) =>
              r.records_before_start =
                  Cardinality({i \in DOMAIN FilteredInput :
                      FilteredInput[i].period_end_date < r.optimal_start_date})

\* position of a filter combination among the generated candidates
CandidateIndex(config) ==
    CHOOSE k \in DOMAIN _generate_filter_combinations :
        _generate_filter_combinations[k] = config

Coverage(rec) == rec.coverage_result.coverage_percentage

\* C23: discover_viable_configurations returns at most max_recommendations
\* results, each with coverage_percentage >= min_coverage, ordered by
\* coverage descending and then by estimated record count descending, and
\* the rank of each result is its 1-based position in the list.
C23_DiscoverOrdered ==
    request.op = "discover" =>
        /\ Len(recommendations) <= request.max
        /\ \A i \in DOMAIN recommendations :
              /\ PctLeq(request.min_coverage, Coverage(recommendations[i]))
              /\ recommendations[i].rank = i
        /\ \A i, j \in DOMAIN recommendations :
              i < j =>
                 \/ PctLess(Coverage(recommendations[j]), Coverage(recommendations[i]))
                 \/ /\ PctEq(Coverage(recommendations[j]), Coverage(recommendations[i]))
                    /\ recommendations[i].estimated_records
                          >= recommendations[j].estimated_records

\* a discovery whose sort moved a later candidate with more records ahead
\* of an earlier one
C23_Witness ==
    /\ request.op = "discover"
    /\ Len(recommendations) >= 2
    /\ CandidateIndex(recommendations[1].filter_config)
          > CandidateIndex(recommendations[2].filter_config)
    /\ recommendations[1].estimated_records > recommendations[2].estimated_records

\* the second of two discovery calls is at least as strict as the first
Stricter ==
    /\ pc = "discovered_again"
    /\ PctLeq(previous.request.min_coverage, request.min_coverage)
    /\ request.max <= previous.request.max

\* C24 as stated: the call with the lower floor and the higher limit returns
\* at least as many recommendations as the stricter call, whatever
\* include_fallback_options value each call uses.
C24_Original ==
    Stricter => Len(previous.recommendations) >= Len(recommendations)

\* C24: on one dataset, a discovery call with floor a and limit m returns at
\* least as many recommendations as a call with floor b >= a and limit
\* n <= m, provided the first call includes fallback options or the second
\* does not.
C24_Monotone ==
    (Stricter /\ (previous.request.fallback \/ ~request.fallback))
        => Len(previous.recommendations) >= Len(recommendations)

\* a strictly stricter second call that returns strictly fewer
C24_Witness ==
    /\ Stricter
    /\ previous.request.fallback \/ ~request.fallback
    /\ PctLess(previous.request.min_coverage, request.min_coverage)
    /\ request.max < previous.request.max
    /\ Len(previous.recommendations) > Len(recommendations)
    /\ Len(recommendations) >= 1
    /\ \E i \in DOMAIN previous.recommendations :
          PctLess(Coverage(previous.recommendations[i]), request.min_coverage)

\* the result of candidate k under the arguments of the last discovery
CandidateResult(k) ==
    analyze_filter_combination(df, _generate_filter_combinations[k],
                               request.fallback, {})
Returned(k) ==
    \E i \in DOMAIN recommendations :
        recommendations[i].filter_config = _generate_filter_combinations[k]

\* C28: discover_viable_configurations returns the best of all its
\* candidates: no generated filter combination that meets min_coverage but
\* is left out of the result has a higher coverage, or an equal coverage and
\* a higher record count, than a combination that is returned.
C28_BestOfAll ==
    request.op = "discover" =>
        \A k \in DOMAIN _generate_filter_combinations :
            LET left == CandidateResult(k)
            IN (PctLeq(request.min_coverage, left.coverage_percentage) /\ ~Returned(k))
                  => \A i \in DOMAIN recommendations :
                        /\ ~PctLess(Coverage(recommendations[i]), left.coverage_percentage)
                        /\ PctEq(Coverage(recommendations[i]), left.coverage_percentage)
                              => left.records_aligned
                                    <= recommendations[i].estimated_records

\* the coverage the i-th analysis of the last call obtained
EvaluatedCoverage(i) ==
    analyze_filter_combination(df, evaluated[i].config, evaluated[i].fallback,
                               {}).coverage_percentage

DefaultsEvaluated == \E i \in DOMAIN evaluated : evaluated[i].strategy = "default"

\* the fallback retry, a per-family retry or a per-type retry produced an
\* alternative: the fallback retry reached a coverage above 0, or the list
\* had room and a family or type retry reached a coverage above 0.8
TargetedProduced ==
    \/ \E i \in DOMAIN evaluated :
          /\ evaluated[i].strategy = "fallback"
          /\ PctLess(Pct(0, 1), EvaluatedCoverage(i))
    \/ /\ request.max >= 1
       /\ \E i \in DOMAIN evaluated :
             /\ evaluated[i].strategy \in {"generation", "type"}
             /\ PctLess(Pct(8, 10), EvaluatedCoverage(i))

\* C25: suggest_alternatives returns at most max_alternatives
\* recommendations, every one of them with coverage_percentage > 0, and it
\* evaluates the default configurations only when the fallback retry, the
\* per-family retries and the per-type retries produced no alternative.
C25_SuggestAlternatives ==
    request.op = "suggest" =>
        /\ Len(recommendations) <= request.max
        /\ \A i \in DOMAIN recommendations :
              PctLess(Pct(0, 1), Coverage(recommendations[i]))
        /\ DefaultsEvaluated => ~TargetedProduced

\* a call that found no targeted alternative, evaluated the defaults and
\* returned one of them
C25_Witness ==
    /\ request.op = "suggest"
    /\ DefaultsEvaluated
    /\ Len(recommendations) >= 1

\* what a fresh analyzer returns on the source
FreshAnalysis(config, fallback) ==
    analyze_filter_combination(df, config, fallback, {})
FreshSummary == get_dataset_summary(df, NoSignatures)

\* C26: for a source that does not change, every result of
\* analyze_filter_combination and get_dataset_summary is the one a fresh
\* analyzer gives, whatever analyze, summary and clear_cache calls came
\* before: the cached dataset is never modified, and after clear_cache both
\* caches are empty, so that the next call reloads the source.
C26_CacheTransparent ==
    /\ dataset_cache.loaded => dataset_cache.rows = df
    /\ signature_cache.loaded => signature_cache.signatures = _get_signature_set(df)
    /\ pc = "analyzed" =>
          coverage_result[allow_fallback] = FreshAnalysis(filter_config, allow_fallback)
    /\ pc = "summarized" => (summary = FreshSummary /\ dataset_cache.loaded)
    /\ pc = "cleared" => (~dataset_cache.loaded /\ ~signature_cache.loaded)

\* an analysis that reloaded the source after the caches were filled and
\* cleared, with a summary at hand from before
C26_Witness ==
    /\ pc = "analyzed"
    /\ dataset_cache.loaded /\ ~signature_cache.loaded
    /\ summary # NoSummary /\ summary.total_records >= 2
    /\ coverage_result[allow_fallback].records_aligned >= 2

\* the use_count of every stored configuration is the number of successful
\* usage updates on its name since the name was last created
UseCountsExact ==
    /\ DOMAIN uses = DOMAIN configurations
    /\ \A n \in DOMAIN configurations :
          configurations[n].usage_statistics.use_count = uses[n]

\* what one call does to a name that is not stored, and what a save does
\* to a name that is
StoreStep ==
    LET call == config_call'
        n == call.name
    IN /\ (call.op \in {"update", "refresh", "delete"} /\ n \notin DOMAIN configurations)
             => (call.value = "False" /\ configurations' = configurations)
       /\ (call.op = "save" /\ call.value = "True" /\ n \in DOMAIN configurations)
             => /\ n \in DOMAIN configurations'
                /\ configurations'[n].filters = call.filters
                /\ configurations'[n].validation_metadata = call.validation_metadata
                /\ configurations'[n].usage_statistics.created_at
                      = configurations[n].usage_statistics.created_at
                /\ configurations'[n].usage_statistics.last_used
                      = configurations[n].usage_statistics.last_used
                /\ configurations'[n].usage_statistics.use_count
                      = configurations[n].usage_statistics.use_count
                /\ \A m \in DOMAIN configurations \ {n} :
                      configurations'[m] = configurations[m]

\* C29: after any sequence of save_configuration, update_usage_statistics,
\* refresh_validation_metadata and delete_configuration calls on one store,
\* the use_count of a stored configuration equals the number of successful
\* update_usage_statistics calls on its name since that name was last
\* created: saving an existing name again replaces its filters and
\* validation metadata but keeps its created_at, last_used and use_count,
\* and a name that is not stored makes update, refresh and delete return
\* False and leave the store unchanged.
C29_UseCount == []UseCountsExact /\ [][StoreStep]_vars

Retryable(response) ==
    \/ response.kind = "HTTPError" /\ response.status = 429
    \/ response.kind \notin {"ok", "HTTPError"}

\* the requests made so far and the way the call ended
FetchOutcome ==
    /\ Len(responses) <= max_retries
    /\ \A i \in DOMAIN responses : i < Len(responses) => Retryable(responses[i])
    /\ pc = "requesting" => (Len(responses) < max_retries /\ fetch_result = NoFetch)
    /\ pc = "returned" =>
          IF responses = << >> THEN max_retries = 0
          ELSE /\ responses[Len(responses)].kind = "ok"
               /\ fetch_result.kind = "returned"
               /\ fetch_result.body = responses[Len(responses)].body
    /\ pc = "raised" =>
          /\ responses # << >>
          /\ fetch_result.kind = "raised"
          /\ fetch_result.error = responses[Len(responses)]
          /\ responses[Len(responses)].kind # "ok"
          /\ Retryable(responses[Len(responses)]) => Len(responses) = max_retries

\* C30: every call of WebClient.fetch ends after at most max_retries GET
\* requests: it returns the body of the first request that succeeds, raises
\* an HTTP error other than 429 at once without a further request, and
\* retries after a 429 or any other request exception until the
\* max_retries-th attempt, whose exception it raises.
C30_FetchTerminates ==
    /\ []FetchOutcome
    /\ (pc = "requesting") ~> (pc \in {"returned", "raised"})

\* a call that was rate limited on every attempt and raised the last 429
C30_Witness ==
    /\ pc = "raised"
    /\ max_retries >= 2
    /\ Len(responses) = max_retries
    /\ \A i \in DOMAIN responses : responses[i] = HTTPError(429)
====
